---- MODULE Spec2Model ----
(***************************************************************************)
(* codex-status: the log reader (readLog and the review extractor) and the *)
(* width truncator (truncateToTerminal) of src/src/codex-status.js.        *)
(*                                                                         *)
(* JavaScript values are tagged records: the field k is the tag.  null and *)
(* undefined (a missing property) are both Null: the code under study      *)
(* never tells them apart (raw == null, !x, typeof x === 'string', ...).   *)
(***************************************************************************)
EXTENDS Integers, Sequences, FiniteSets, TLC

VARIABLES
  log,                      \* the lines the stream has delivered so far
  status,                   \* "scanning" | "done" (returned) | "failed" (threw)
  lastContext, lastTokenCount, lastTimestamp, lastAssistantMessageTime,
  lastActivity, lastReview, reviewMode, pendingReview,
  text, columns, i, width, result, pc,  \* truncateToTerminal's locals
  calls,                    \* how many times truncateToTerminal was called
  given,                    \* the text of the first call
  arg, argc,                \* parseArgs: the argument last read, how many were read
  options,                  \* the options parseArgs builds and runWatch updates
  detail, composed,         \* the session rendered and the line composed of it
  stage,                    \* runCli: "args" | "rejected" | "parsed" | "rendered"
  running, lastSeenActivity, lastSeenTimestamp, lastStatus, soundMuted,
  messageCounter,           \* runWatch's locals
  played,                   \* the playSound calls made so far
  scans,                    \* how many times gather was called
  observed,                 \* how many passes recorded an activity or a timestamp
                            \* (2: two or more)
  pending,                  \* how many gather calls have not settled yet
  event,                    \* the handler that ran last
  wrote,                    \* whether it wrote a line to stdout
  disk,                     \* the rollout logs under baseDir, in readdir order
  sessions, details         \* gatherStatuses: the logs found, the entries built

session == <<lastContext, lastTokenCount, lastTimestamp, lastAssistantMessageTime,
             lastActivity, lastReview>>
reader == <<log, status, lastContext, lastTokenCount, lastTimestamp,
            lastAssistantMessageTime, lastActivity, lastReview, reviewMode,
            pendingReview>>
trunc == <<text, columns, i, width, result, pc, calls, given>>
composer == <<arg, argc, options, detail, composed, stage>>
watcher == <<running, lastSeenActivity, lastSeenTimestamp, lastStatus, soundMuted,
             messageCounter, played, scans, observed, pending, event, wrote>>
gatherer == <<disk, sessions, details>>
vars == <<log, status, lastContext, lastTokenCount, lastTimestamp,
          lastAssistantMessageTime, lastActivity, lastReview, reviewMode,
          pendingReview, text, columns, i, width, result, pc, calls, given,
          arg, argc, options, detail, composed, stage,
          running, lastSeenActivity, lastSeenTimestamp, lastStatus, soundMuted,
          messageCounter, played, scans, observed, pending, event, wrote,
          disk, sessions, details>>

(***************************************************************************)
(* Values                                                                  *)
(***************************************************************************)
Null == [k |-> "null"]
Num(n) == [k |-> "num", n |-> n]
Bool(b) == [k |-> "bool", b |-> b]
Arr(items) == [k |-> "arr", items |-> items]

\* A string is its content between optional surrounding white space (pad).
\* The content is a list of words (free text; no words: the empty string),
\* the JSON encoding of a value, or an ISO date.
Words(pad, w) == [k |-> "str", pad |-> pad, body |-> [k |-> "words", w |-> w]]
S(word) == Words(FALSE, <<word>>)
JsonText(pad, v) == [k |-> "str", pad |-> pad, body |-> [k |-> "json", v |-> v]]
IsoDate(t) == [k |-> "str", pad |-> FALSE, body |-> [k |-> "iso", t |-> t]]
DateOf(t) == [k |-> "date", t |-> t]

IsString(v) == v.k = "str"
IsObject(v) == v.k \in {"obj", "arr", "date", "review", "finding", "location"}
IsFinite(v) == v.k = "num"
IsArray(v) == v.k = "arr"

\* String.prototype.trim
Trim(s) == [s EXCEPT !.pad = FALSE]
IsEmptyString(s) == ~s.pad /\ s.body.k = "words" /\ s.body.w = <<>>

\* ToBoolean
Truthy(v) ==
  CASE v.k = "null" -> FALSE
    [] v.k = "bool" -> v.b
    [] v.k = "num" -> v.n # 0
    [] v.k = "str" -> ~IsEmptyString(v)
    [] OTHER -> TRUE

\* o.f for a non-null o: the property, or undefined
Get(o, f) == IF IsObject(o) /\ f \in DOMAIN o THEN o[f] ELSE Null

\* JSON.parse of a trimmed string: does it throw, and what does it return
JsonParses(s) == s.body.k = "json"
JsonParse(s) == s.body.v

\* String(raw) of a number or boolean is the text JSON.parse reads back as raw
StringOf(raw) == JsonText(FALSE, raw)

\* new Date(v), or Null for an Invalid Date
NewDate(v) ==
  CASE v.k = "num" -> DateOf(v.n)
    [] v.k = "bool" -> DateOf(IF v.b THEN 1 ELSE 0)
    [] v.k = "str" /\ v.body.k = "iso" -> DateOf(v.body.t)
    [] OTHER -> Null

\* s.toLowerCase(), word by word
LowerWord(w) ==
  CASE w = "Review" -> "review"
    [] w = "REVIEW" -> "review"
    [] w = "Incorrect" -> "incorrect"
    [] w = "Correct" -> "correct"
    [] OTHER -> w
\* does the word w contain the keyword kw
WordIncludes(w, kw) ==
  \/ w = kw
  \/ w = "incorrect" /\ kw = "correct"
  \/ w = "approved" /\ kw = "approve"
  \/ w = "rejected" /\ kw = "reject"
\* s.trim().toLowerCase().includes(kw)
RECURSIVE Includes(_, _)
Includes(s, kw) ==
  CASE s.body.k = "words" ->
         \E n \in 1..Len(s.body.w) : WordIncludes(LowerWord(s.body.w[n]), kw)
    [] s.body.k = "json" /\ IsString(s.body.v) -> Includes(s.body.v, kw)
    [] OTHER -> FALSE

(***************************************************************************)
(* Review extractor                                                        *)
(***************************************************************************)
\* a || b
Or(a, b) == IF Truthy(a) THEN a ELSE b

\* typeof v === 'string' && v.trim() ? v.trim() : null
TrimmedOrNull(v) == IF IsString(v) /\ Truthy(Trim(v)) THEN Trim(v) ELSE Null
\* Number.isFinite(v) ? v : null
FiniteOrNull(v) == IF IsFinite(v) THEN v ELSE Null
\* typeof a === 'string' ? a : typeof b === 'string' ? b : null
FirstString(a, b) == IF IsString(a) THEN a ELSE IF IsString(b) THEN b ELSE Null

normalizeLocation(raw) ==
  LET loc == Get(raw, "code_location")
      file == Or(TrimmedOrNull(Get(loc, "absolute_file_path")),
                 TrimmedOrNull(Get(loc, "file_path")))
      range == Get(loc, "line_range")
      ranged == Truthy(range) /\ IsObject(range)
      startLine == IF ranged THEN FiniteOrNull(Get(range, "start"))
                   ELSE FiniteOrNull(Get(loc, "start_line"))
      endLine == IF ranged THEN FiniteOrNull(Get(range, "end"))
                 ELSE FiniteOrNull(Get(loc, "end_line"))
  IN IF Truthy(loc) /\ IsObject(loc)
        /\ (Truthy(file) \/ startLine # Null \/ endLine # Null)
     THEN [k |-> "location", file |-> file, startLine |-> startLine,
           endLine |-> endLine]
     ELSE Null

normalizeReviewFinding(raw) ==
  IF ~Truthy(raw) \/ ~IsObject(raw) THEN Null
  ELSE LET title == TrimmedOrNull(Get(raw, "title"))
           body == TrimmedOrNull(Get(raw, "body"))
           confidence == IF IsFinite(Get(raw, "confidence_score"))
                         THEN Get(raw, "confidence_score")
                         ELSE FiniteOrNull(Get(raw, "confidence"))
           location == normalizeLocation(raw)
       IN IF ~Truthy(title) /\ ~Truthy(body) /\ ~Truthy(location) THEN Null
          ELSE [k |-> "finding", title |-> title, body |-> body,
                priority |-> FiniteOrNull(Get(raw, "priority")),
                severity |-> TrimmedOrNull(Get(raw, "severity")),
                confidence |-> confidence, location |-> location]

deriveReviewVerdict(value) ==
  IF ~IsString(value) THEN Null
  ELSE IF ~Truthy(Trim(value)) THEN Null
  ELSE IF Includes(value, "incorrect") \/ Includes(value, "reject")
          \/ Includes(value, "changes") THEN S("incorrect")
  ELSE IF Includes(value, "correct") \/ Includes(value, "approve") THEN S("correct")
  ELSE IF Includes(value, "unsure") \/ Includes(value, "uncertain")
          \/ Includes(value, "follow-up") THEN S("unsure")
  ELSE Null

\* the record both free-text branches of normalizeReviewPayload return
FreeTextReview(source, t, raw) ==
  [k |-> "review", source |-> source, summary |-> t, overallCorrectness |-> Null,
   overallExplanation |-> t, overallConfidence |-> Null, findings |-> <<>>,
   text |-> t, verdict |-> Null, raw |-> raw, timestamp |-> Null]

\* raw.findings.map(normalizeReviewFinding).filter(Boolean)
NormalizedFindings(items) ==
  SelectSeq([n \in 1..Len(items) |-> normalizeReviewFinding(items[n])],
            LAMBDA f : Truthy(f))

ObjectReview(raw, source, fallbackText) ==
  LET findings == IF IsArray(Get(raw, "findings"))
                  THEN NormalizedFindings(Get(raw, "findings").items) ELSE <<>>
      overallCorrectness == FirstString(Get(raw, "overall_correctness"),
                                        Get(raw, "overallCorrectness"))
      overallExplanation == TrimmedOrNull(FirstString(Get(raw, "overall_explanation"),
                                                      Get(raw, "overallExplanation")))
      confidenceRaw == IF IsFinite(Get(raw, "overall_confidence_score"))
                       THEN Get(raw, "overall_confidence_score")
                       ELSE FiniteOrNull(Get(raw, "overall_confidence"))
      summaryRaw == TrimmedOrNull(Get(raw, "summary"))
      fallback == IF Truthy(fallbackText) THEN Trim(fallbackText) ELSE Null
      summary == Or(summaryRaw, Or(overallExplanation, Or(fallback, Null)))
      txt == Or(summary, IF Len(findings) > 0
                          THEN Or(findings[1].title, Or(findings[1].body, Null))
                          ELSE Null)
  IN [k |-> "review", source |-> source, summary |-> summary,
      overallCorrectness |-> overallCorrectness,
      overallExplanation |-> overallExplanation,
      overallConfidence |-> confidenceRaw, findings |-> findings, text |-> txt,
      verdict |-> deriveReviewVerdict(overallCorrectness), raw |-> raw,
      timestamp |-> Null]

\* A string that decodes to null recurses for ever (null with the string as
\* fallback text, then the string again); the RangeError of the exhausted stack
\* is caught by the try/catch around the recursive call in a frame whose raw is
\* the trimmed string, and that frame returns the free-text record.
RECURSIVE normalizeReviewPayload(_, _, _)
normalizeReviewPayload(raw, source, fallbackText) ==
  IF raw.k = "null" THEN
    IF Truthy(fallbackText) THEN normalizeReviewPayload(fallbackText, source, Null)
    ELSE Null
  ELSE IF IsString(raw) THEN
    LET trimmed == Trim(raw) IN
    IF ~Truthy(trimmed) THEN Null
    ELSE IF ~JsonParses(trimmed) THEN FreeTextReview(source, trimmed, raw)
    ELSE IF JsonParse(trimmed).k = "null" THEN FreeTextReview(source, trimmed, trimmed)
    ELSE normalizeReviewPayload(JsonParse(trimmed), source, trimmed)
  ELSE IF ~IsObject(raw) THEN
    FreeTextReview(source, Trim(StringOf(raw)), raw)
  ELSE ObjectReview(raw, source, fallbackText)

\* mutant: findings of the update are taken only when the base has none
mergeFindings_KeepsBase(base, update) ==
  IF Len(base) = 0 THEN update ELSE base

mergeFindings(base, update) ==
  IF Len(base) = 0 THEN update
  ELSE IF Len(update) > 0 THEN base \o update
  ELSE base

\* mutant: a populated field of the update overwrites the base
Fill_UpdateWins(b, u) == IF Truthy(u) THEN u ELSE b

\* if (!merged.f && update.f) merged.f = update.f
Fill(b, u) == IF ~Truthy(b) /\ Truthy(u) THEN u ELSE b

mergeReviewData(base, update) ==
  IF ~Truthy(update) THEN Or(base, Null)
  ELSE IF ~Truthy(base) THEN update
  ELSE [k |-> "review",
        source |-> Fill(base.source, update.source),
        summary |-> Fill(base.summary, update.summary),
        overallCorrectness |-> Fill(base.overallCorrectness, update.overallCorrectness),
        overallExplanation |-> Fill(base.overallExplanation, update.overallExplanation),
        overallConfidence |-> IF ~IsFinite(base.overallConfidence)
                                 /\ IsFinite(update.overallConfidence)
                              THEN update.overallConfidence
                              ELSE base.overallConfidence,
        findings |-> mergeFindings(base.findings, update.findings),
        text |-> Fill(base.text, update.text),
        verdict |-> Fill(base.verdict, update.verdict),
        raw |-> Fill(base.raw, update.raw),
        timestamp |-> Fill(base.timestamp, update.timestamp)]

\* A text with tags: ua says whether it contains <user_action>; action is the
\* inner text of the first <action> tag (Null: no tag, or nothing inside it);
\* results is the inner text of the first <results> tag (Null: no tag).
Tagged(ua, action, results) ==
  [k |-> "str", pad |-> FALSE,
   body |-> [k |-> "tagged", ua |-> ua, action |-> action, results |-> results]]

\* s.toLowerCase()
LowerCase(s) ==
  IF s.body.k = "words"
  THEN [s EXCEPT !.body.w = [n \in 1..Len(s.body.w) |-> LowerWord(s.body.w[n])]]
  ELSE s

\* mutant: the action tag's text is not compared with review
parseUserActionReview_AnyAction(t) ==
  IF ~IsString(t) \/ t.body.k # "tagged" THEN Null
  ELSE IF ~t.body.ua THEN Null
  ELSE IF t.body.action = Null THEN Null
  ELSE LET resultsText == IF t.body.results = Null THEN Words(FALSE, <<>>)
                          ELSE Trim(t.body.results)
       IN IF ~Truthy(resultsText) THEN Null
          ELSE normalizeReviewPayload(resultsText, S("user_action"), Null)

parseUserActionReview(t) ==
  IF ~IsString(t) \/ t.body.k # "tagged" THEN Null
  ELSE IF ~t.body.ua THEN Null
  ELSE IF t.body.action = Null \/ LowerCase(Trim(t.body.action)) # S("review") THEN Null
  ELSE LET resultsText == IF t.body.results = Null THEN Words(FALSE, <<>>)
                          ELSE Trim(t.body.results)
       IN IF ~Truthy(resultsText) THEN Null
          ELSE normalizeReviewPayload(resultsText, S("user_action"), Null)

(***************************************************************************)
(* Log reader: readLog, one line at a time.  st is the record of readLog's *)
(* locals.                                                                 *)
(***************************************************************************)
\* if (lastTimestamp) review.timestamp = lastTimestamp
WithTimestamp(review, ts) ==
  IF Truthy(ts) THEN [review EXCEPT !.timestamp = ts] ELSE review

\* if (!review.verdict) review.verdict = deriveReviewVerdict(review.overallCorrectness)
WithVerdict(review) ==
  IF ~Truthy(review.verdict)
  THEN [review EXCEPT !.verdict = deriveReviewVerdict(review.overallCorrectness)]
  ELSE review

\* if (record.timestamp) { ts = new Date(...); if (!isNaN) lastTimestamp = ts }
stampRecord(st, record) ==
  LET ts == NewDate(Get(record, "timestamp")) IN
  IF Truthy(Get(record, "timestamp")) /\ ts # Null
  THEN [st EXCEPT !.lastTimestamp = ts] ELSE st

\* mutant: the first context is kept
onTurnContext_KeepsFirst(st, record) ==
  IF st.lastContext = Null
  THEN [st EXCEPT !.lastContext = Or(Get(record, "payload"), Null)] ELSE st

onTurnContext(st, record) ==
  [st EXCEPT !.lastContext = Or(Get(record, "payload"), Null)]

onTokenCount(st, eventPayload) ==
  [st EXCEPT !.lastTokenCount = eventPayload]

\* mutant: entering review mode already counts as review activity
onEnteredReviewMode_SetsActivity(st) ==
  [st EXCEPT !.reviewMode = TRUE, !.pendingReview = Null,
             !.lastActivity = S("review")]

onEnteredReviewMode(st) ==
  [st EXCEPT !.reviewMode = TRUE, !.pendingReview = Null]

\* mutant: a later agent message replaces the pending review
onAgentMessage_Replaces(st, eventPayload) ==
  LET normalized == normalizeReviewPayload(Get(eventPayload, "message"),
                                           S("agent_message"), Null)
  IN IF st.reviewMode /\ Truthy(normalized)
     THEN [st EXCEPT !.pendingReview = WithTimestamp(normalized, st.lastTimestamp)]
     ELSE st

onAgentMessage(st, eventPayload) ==
  LET normalized == normalizeReviewPayload(Get(eventPayload, "message"),
                                           S("agent_message"), Null)
  IN IF st.reviewMode /\ Truthy(normalized)
     THEN [st EXCEPT !.pendingReview =
             mergeReviewData(st.pendingReview,
                             WithTimestamp(normalized, st.lastTimestamp))]
     ELSE st

\* mutant: the exit event counts as review activity whether or not it
\* yields review data
onExitedReviewMode_AlwaysReview(st, eventPayload) ==
  LET fromPayload == normalizeReviewPayload(Get(eventPayload, "review_output"),
                                            S("exited_review_mode"), Null)
      reviewData == mergeReviewData(fromPayload, st.pendingReview)
      cleared == [st EXCEPT !.reviewMode = FALSE, !.pendingReview = Null,
                            !.lastActivity = S("review")]
  IN IF Truthy(reviewData)
     THEN [cleared EXCEPT
             !.lastReview = WithVerdict(WithTimestamp(reviewData, st.lastTimestamp))]
     ELSE cleared

\* mutant: the pending partial review survives the exit
onExitedReviewMode_KeepsPending(st, eventPayload) ==
  LET fromPayload == normalizeReviewPayload(Get(eventPayload, "review_output"),
                                            S("exited_review_mode"), Null)
      merged == mergeReviewData(fromPayload, st.pendingReview)
      reviewData == IF ~Truthy(merged) /\ Truthy(Get(eventPayload, "message"))
                    THEN normalizeReviewPayload(Get(eventPayload, "message"),
                                                S("exited_review_mode"), Null)
                    ELSE merged
      cleared == [st EXCEPT !.reviewMode = FALSE]
  IN IF Truthy(reviewData)
     THEN [cleared EXCEPT
             !.lastReview = WithVerdict(WithTimestamp(reviewData, st.lastTimestamp)),
             !.lastActivity = S("review")]
     ELSE cleared

onExitedReviewMode(st, eventPayload) ==
  LET fromPayload == normalizeReviewPayload(Get(eventPayload, "review_output"),
                                            S("exited_review_mode"), Null)
      merged == mergeReviewData(fromPayload, st.pendingReview)
      reviewData == IF ~Truthy(merged) /\ Truthy(Get(eventPayload, "message"))
                    THEN normalizeReviewPayload(Get(eventPayload, "message"),
                                                S("exited_review_mode"), Null)
                    ELSE merged
      cleared == [st EXCEPT !.reviewMode = FALSE, !.pendingReview = Null]
  IN IF Truthy(reviewData)
     THEN [cleared EXCEPT
             !.lastReview = WithVerdict(WithTimestamp(reviewData, st.lastTimestamp)),
             !.lastActivity = S("review")]
     ELSE cleared

onEventMsg(st, eventPayload) ==
  LET type == Get(eventPayload, "type") IN
  IF type = S("token_count") THEN onTokenCount(st, eventPayload)
  ELSE IF type = S("entered_review_mode") THEN onEnteredReviewMode(st)
  ELSE IF type = S("agent_message") THEN onAgentMessage(st, eventPayload)
  ELSE IF type = S("exited_review_mode") THEN onExitedReviewMode(st, eventPayload)
  ELSE st

\* parseUserActionReview of each content part that is an object with a string text
partReviews(payload) ==
  LET content == Get(payload, "content")
      parts == IF IsArray(content) THEN content.items ELSE <<>>
  IN [n \in 1..Len(parts) |->
        IF Truthy(parts[n]) /\ IsObject(parts[n]) /\ IsString(Get(parts[n], "text"))
        THEN parseUserActionReview(Get(parts[n], "text")) ELSE Null]

onUserItem(st, payload) ==
  LET reviews == partReviews(payload)
      hits == {n \in 1..Len(reviews) : Truthy(reviews[n])}
  IN IF hits = {} THEN [st EXCEPT !.lastActivity = S("user")]
     ELSE LET first == CHOOSE n \in hits : \A m \in hits : n <= m
              reviewFromUserAction == WithTimestamp(reviews[first], st.lastTimestamp)
              merged == Or(mergeReviewData(st.lastReview, reviewFromUserAction),
                           reviewFromUserAction)
          IN [st EXCEPT !.lastReview = WithVerdict(merged),
                        !.lastActivity = S("review")]

\* Track assistant messages for sound alerts
trackAssistant(st, record, payload) ==
  LET ts == NewDate(Get(record, "timestamp")) IN
  IF Get(payload, "role") = S("assistant") /\ Truthy(Get(record, "timestamp"))
     /\ ts # Null
  THEN [st EXCEPT !.lastAssistantMessageTime = ts] ELSE st

onResponseItem(st, record, payload) ==
  LET tracked == trackAssistant(st, record, payload) IN
  IF Get(payload, "role") = S("user") THEN onUserItem(tracked, payload)
  ELSE IF Get(payload, "role") = S("assistant")
    THEN [tracked EXCEPT !.lastActivity = S("assistant")]
  ELSE IF Get(payload, "type") = S("function_call")
    THEN [tracked EXCEPT !.lastActivity = S("tool")]
  ELSE IF Get(payload, "type") = S("reasoning")
    THEN [tracked EXCEPT !.lastActivity = S("thinking")]
  ELSE tracked

\* record.timestamp of a null record is a TypeError: readLog's promise rejects
processRecord(st, record) ==
  IF record.k = "null" THEN [st EXCEPT !.status = "failed"]
  ELSE LET stamped == stampRecord(st, record)
           payload == Get(record, "payload")
       IN IF Get(record, "type") = S("turn_context") THEN onTurnContext(stamped, record)
          ELSE IF Get(record, "type") = S("event_msg") /\ Truthy(payload)
            THEN onEventMsg(stamped, payload)
          ELSE IF Get(record, "type") = S("response_item") /\ Truthy(payload)
            THEN onResponseItem(stamped, record, payload)
          ELSE stamped

\* mutant: JSON.parse outside the try: a line that is not JSON is fatal
processLine_ThrowsOnBadJson(st, line) ==
  LET trimmed == Trim(line) IN
  IF ~Truthy(trimmed) THEN st
  ELSE IF ~JsonParses(trimmed) THEN [st EXCEPT !.status = "failed"]
  ELSE processRecord(st, JsonParse(trimmed))

processLine(st, line) ==
  LET trimmed == Trim(line) IN
  IF ~Truthy(trimmed) THEN st
  ELSE IF ~JsonParses(trimmed) THEN st
  ELSE processRecord(st, JsonParse(trimmed))

(***************************************************************************)
(* The lines a rollout log is drawn from                                   *)
(***************************************************************************)
MaxLog == 3
MaxCycleLog == 4

Context(model) == [k |-> "obj", model |-> S(model)]
TokenCount(n) == [k |-> "obj", type |-> S("token_count"), info |-> Num(n)]

FindingFlow ==
  [k |-> "obj", title |-> S("Broken"), body |-> S("Routing"), priority |-> Num(1),
   confidence_score |-> Num(6),
   code_location |-> [k |-> "obj", absolute_file_path |-> S("app"),
                      line_range |-> [k |-> "obj", start |-> Num(10),
                                      end |-> Num(14)]]]
FindingTypo == [k |-> "obj", title |-> Words(TRUE, <<"Typo">>)]
FindingHollow == [k |-> "obj", priority |-> Num(2)]

StructuredReview ==
  [k |-> "obj", findings |-> Arr(<<FindingFlow>>),
   overall_correctness |-> Words(FALSE, <<"patch", "is", "incorrect">>),
   overall_explanation |-> S("Breaks"), overall_confidence_score |-> Num(6)]
OutputReview ==
  [k |-> "obj", summary |-> S("Fine"),
   overall_correctness |-> Words(FALSE, <<"patch", "is", "correct">>),
   findings |-> Arr(<<FindingFlow, FindingHollow>>)]
FindingsOnlyReview == [k |-> "obj", findings |-> Arr(<<FindingTypo>>)]
EmptyObject == [k |-> "obj"]

Record(type, timestamp, payload) ==
  JsonText(FALSE, [k |-> "obj", type |-> type, timestamp |-> timestamp,
                   payload |-> payload])
Event(timestamp, payload) == Record(S("event_msg"), timestamp, payload)
AgentMessage(message) ==
  Event(Null, [k |-> "obj", type |-> S("agent_message"), message |-> message])
Exited(timestamp, review_output, message) ==
  Event(timestamp, [k |-> "obj", type |-> S("exited_review_mode"),
                    review_output |-> review_output, message |-> message])
Item(timestamp, role, type, content) ==
  Record(S("response_item"), timestamp,
         [k |-> "obj", role |-> role, type |-> type, content |-> content])
Part(t) == [k |-> "obj", type |-> S("input_text"), text |-> t]
UserItem(parts) == Item(Null, S("user"), S("message"), Arr(parts))

JunkLines ==
  { Words(TRUE, <<>>),                       \* white space only
    Words(FALSE, <<"{", "oops">>) }          \* a partial write: not JSON
OddLines ==
  { JsonText(FALSE, Null),
    JsonText(FALSE, Num(7)),
    JsonText(TRUE, S("hello")),
    Record(S("session_meta"), IsoDate(3), EmptyObject),
    Event(Num(0), Null) }
ContextLines ==
  { Record(S("turn_context"), IsoDate(1), Context("gpt-5")),
    Record(S("turn_context"), Null, Context("o3")),
    Record(S("turn_context"), Null, Null),
    Event(Null, TokenCount(1)),
    Event(S("yesterday"), TokenCount(2)) }
ReviewLines ==
  { Event(Null, [k |-> "obj", type |-> S("entered_review_mode")]),
    AgentMessage(JsonText(FALSE, StructuredReview)),
    AgentMessage(Words(TRUE, <<"looks", "fine">>)),
    Exited(Null, Null, Null),
    Exited(IsoDate(4), OutputReview, Null),
    Exited(Null, FindingsOnlyReview, Null),
    Exited(Null, Null, S("done")) }
UserLines ==
  { UserItem(<<Part(S("hello")),
               Part(Tagged(TRUE, S("summarize"), S("ok"))),
               Part(Tagged(FALSE, S("review"), S("ok"))),
               Part(Tagged(TRUE, S("review"), Words(TRUE, <<>>))),
               Part(Tagged(TRUE, S("review"), Null))>>),
    UserItem(<<Part(S("hello")),
               Part(Tagged(TRUE, Words(TRUE, <<"Review">>),
                           Words(TRUE, <<"Looks", "good">>)))>>),
    UserItem(<<Part(Tagged(TRUE, S("review"), JsonText(FALSE, FindingsOnlyReview))),
               Part(Tagged(TRUE, S("review"), S("ignored")))>>),
    UserItem(<<Part(Tagged(TRUE, S("review"), JsonText(TRUE, Words(TRUE, <<>>))))>>) }
ItemLines ==
  { Item(IsoDate(2), S("assistant"), S("message"), Null),
    Item(Null, Null, S("function_call"), Null),
    Item(Null, Null, S("reasoning"), Null) }
Lines ==
  JunkLines \cup OddLines \cup ContextLines \cup ReviewLines \cup UserLines
  \cup ItemLines
\* the lines of the review cycles: a stamped record, the events, the user items
CycleLines ==
  {Record(S("turn_context"), IsoDate(1), Context("gpt-5"))} \cup ReviewLines
  \cup UserLines

(***************************************************************************)
(* readLog as a state machine                                              *)
(***************************************************************************)
Locals ==
  [lastContext |-> lastContext, lastTokenCount |-> lastTokenCount,
   lastTimestamp |-> lastTimestamp,
   lastAssistantMessageTime |-> lastAssistantMessageTime,
   lastActivity |-> lastActivity, lastReview |-> lastReview,
   reviewMode |-> reviewMode, pendingReview |-> pendingReview, status |-> status]

\* runWatch has not been called
NoWatch ==
  /\ running = FALSE /\ lastSeenActivity = Null /\ lastSeenTimestamp = Null
  /\ lastStatus = Null /\ soundMuted = FALSE /\ messageCounter = 0
  /\ played = <<>> /\ scans = 0 /\ observed = 0
  /\ pending = 0 /\ event = "none" /\ wrote = FALSE
  /\ disk = <<>> /\ sessions = <<>> /\ details = <<>>

Init ==
  /\ log = <<>>
  /\ status = "scanning"
  /\ lastContext = Null
  /\ lastTokenCount = Null
  /\ lastTimestamp = Null
  /\ lastAssistantMessageTime = Null
  /\ lastActivity = Null
  /\ lastReview = Null
  /\ reviewMode = FALSE
  /\ pendingReview = Null
  /\ text = <<>> /\ columns = 0 /\ i = 0 /\ width = 0 /\ result = <<>>
  /\ pc = "idle"
  /\ calls = 0 /\ given = <<>>
  /\ arg = Null /\ argc = 0 /\ options = Null /\ detail = Null /\ composed = Null
  /\ stage = "idle"
  /\ NoWatch

\* one iteration of for await (const line of rl)
ReadLine(from, max) ==
  /\ status = "scanning"
  /\ Len(log) < max
  /\ \E line \in from : \E st \in {processLine(Locals, line)} :
       /\ log' = Append(log, line)
       /\ status' = st.status
       /\ lastContext' = st.lastContext
       /\ lastTokenCount' = st.lastTokenCount
       /\ lastTimestamp' = st.lastTimestamp
       /\ lastAssistantMessageTime' = st.lastAssistantMessageTime
       /\ lastActivity' = st.lastActivity
       /\ lastReview' = st.lastReview
       /\ reviewMode' = st.reviewMode
       /\ pendingReview' = st.pendingReview
  /\ UNCHANGED <<trunc, composer, watcher, gatherer>>

\* the stream ends: return { lastContext, ..., lastReview }
EndOfStream ==
  /\ status = "scanning"
  /\ status' = "done"
  /\ UNCHANGED <<log, session, reviewMode, pendingReview>>
  /\ UNCHANGED <<trunc, composer, watcher, gatherer>>

Next == ReadLine(Lines, MaxLog) \/ EndOfStream
Spec == Init /\ [][Next]_vars

\* logs of review cycles, one line longer
NextReview == ReadLine(CycleLines, MaxCycleLog) \/ EndOfStream
SpecReview == Init /\ [][NextReview]_vars

(***************************************************************************)
(* What a log says, read off the lines themselves                          *)
(***************************************************************************)
\* the value a line decodes to (Null: blank, not JSON, or the literal null)
Decoded(line) ==
  IF Truthy(Trim(line)) /\ JsonParses(Trim(line)) THEN JsonParse(Trim(line)) ELSE Null
TypeOf(line) == Get(Decoded(line), "type")
PayloadOf(line) == Get(Decoded(line), "payload")
TimestampOf(line) == Get(Decoded(line), "timestamp")
EventTypeOf(line) ==
  IF TypeOf(line) = S("event_msg") THEN Get(PayloadOf(line), "type") ELSE Null

IsJunk(line) == ~Truthy(Trim(line)) \/ ~JsonParses(Trim(line))
IsTurnContext(line) == TypeOf(line) = S("turn_context")
IsTokenCount(line) == EventTypeOf(line) = S("token_count")
HasValidTimestamp(line) ==
  Truthy(TimestampOf(line)) /\ NewDate(TimestampOf(line)) # Null
IsEntered(line) == EventTypeOf(line) = S("entered_review_mode")
IsAgentMessage(line) == EventTypeOf(line) = S("agent_message")
IsExited(line) == EventTypeOf(line) = S("exited_review_mode")

\* the index of the last line of the log that satisfies P, 0 when none does
LastWhere(P(_), upto) ==
  LET hits == {n \in 1..upto : P(log[n])}
  IN IF hits = {} THEN 0 ELSE CHOOSE n \in hits : \A m \in hits : m <= n

\* the line the step from log to log' has read
Reads(P(_)) == Len(log') = Len(log) + 1 /\ P(log'[Len(log')])

(***************************************************************************)
(* C1: after any scan, lastContext is the payload of the last              *)
(* turn_context record, lastTokenCount the payload of the last token_count *)
(* event and lastTimestamp the timestamp of the last record with a valid   *)
(* timestamp; each is null when the log has no such record.                *)
(***************************************************************************)
C1_LastRecordWins ==
  status # "failed" =>
    LET c == LastWhere(IsTurnContext, Len(log))
        t == LastWhere(IsTokenCount, Len(log))
        s == LastWhere(HasValidTimestamp, Len(log))
    IN /\ lastContext = IF c = 0 THEN Null ELSE PayloadOf(log[c])
       /\ lastTokenCount = IF t = 0 THEN Null ELSE PayloadOf(log[t])
       /\ lastTimestamp = IF s = 0 THEN Null ELSE NewDate(TimestampOf(log[s]))

\* a returned scan of two different contexts and two different timestamps,
\* with a third record after them
C1_Witness ==
  /\ status = "done"
  /\ Len(log) = 3
  /\ IsTurnContext(log[1]) /\ IsTurnContext(log[2]) /\ ~IsTurnContext(log[3])
  /\ PayloadOf(log[1]) # PayloadOf(log[2])
  /\ lastContext = PayloadOf(log[2]) /\ lastContext # Null
  /\ HasValidTimestamp(log[1]) /\ HasValidTimestamp(log[3])
  /\ lastTimestamp = NewDate(TimestampOf(log[3]))
  /\ lastTimestamp # NewDate(TimestampOf(log[1]))

(***************************************************************************)
(* C2: a blank line or a line that is not JSON never makes readLog fail    *)
(* and changes nothing of what the scan has gathered, wherever it stands.  *)
(***************************************************************************)
C2_JunkLinesSkipped ==
  [][Reads(IsJunk) =>
       status' = status /\ UNCHANGED <<session, reviewMode, pendingReview>>]_vars

\* a returned scan with a junk line between two records that both counted
C2_Witness ==
  /\ status = "done"
  /\ Len(log) = 3
  /\ IsTurnContext(log[1]) /\ IsJunk(log[2]) /\ IsTokenCount(log[3])
  /\ lastContext # Null /\ lastTokenCount # Null

(***************************************************************************)
(* C3: a line that is JSON but no recognized record (unknown type, missing *)
(* payload, or a value that is no object: null, a number, a string) is     *)
(* ignored: the scan goes on without error and only lastTimestamp may      *)
(* change.                                                                 *)
(***************************************************************************)
IsUnrecognized(line) ==
  /\ ~IsJunk(line)
  /\ \/ ~IsObject(Decoded(line))
     \/ TypeOf(line) \notin {S("turn_context"), S("event_msg"), S("response_item")}
     \/ ~Truthy(PayloadOf(line))

C3_UnrecognizedIgnored ==
  [][Reads(IsUnrecognized) =>
       /\ status' = status
       /\ UNCHANGED <<lastContext, lastTokenCount, lastAssistantMessageTime,
                      lastActivity, lastReview, reviewMode, pendingReview>>]_vars

(***************************************************************************)
(* C4: lastActivity becomes review only in a step that reads a review      *)
(* concluding record and leaves a review record in lastReview; so whenever *)
(* lastActivity is review, lastReview is not null.                         *)
(***************************************************************************)
IsUserItem(line) ==
  /\ TypeOf(line) = S("response_item")
  /\ Get(PayloadOf(line), "role") = S("user")

C4_ReviewActivityHasReview ==
  /\ [](lastActivity = S("review") => lastReview # Null)
  /\ [][(lastActivity' = S("review") /\ lastActivity # S("review")) =>
          /\ lastReview' # Null
          /\ Reads(IsExited) \/ Reads(IsUserItem)]_vars

\* a scan that ended in review activity once through an exit event and once
\* through a user item
C4_Witness ==
  /\ status = "done"
  /\ lastActivity = S("review") /\ lastReview # Null
  /\ \E n \in 1..Len(log) : IsExited(log[n])
  /\ IsUserItem(log[Len(log)])

(***************************************************************************)
(* Review cycles, read off the log                                         *)
(***************************************************************************)
ScalarFields ==
  {"summary", "overallCorrectness", "overallExplanation", "overallConfidence",
   "text", "verdict"}
\* does a review record's field hold something
Populated(f, v) == IF f = "overallConfidence" THEN IsFinite(v) ELSE Truthy(v)

MessageReview(line) ==
  normalizeReviewPayload(Get(PayloadOf(line), "message"), S("agent_message"), Null)
OutputReviewOf(line) ==
  normalizeReviewPayload(Get(PayloadOf(line), "review_output"),
                         S("exited_review_mode"), Null)
FallbackReviewOf(line) ==
  IF Truthy(Get(PayloadOf(line), "message"))
  THEN normalizeReviewPayload(Get(PayloadOf(line), "message"),
                              S("exited_review_mode"), Null)
  ELSE Null

\* the reviews of the agent messages logged before line n inside the review
\* cycle that is open there: after the last entered_review_mode, when no
\* exited_review_mode follows it
CycleReviews(n) ==
  LET e == LastWhere(IsEntered, n - 1)
      x == LastWhere(IsExited, n - 1)
  IN SelectSeq([m \in 1..(n - 1) |->
                  IF e > x /\ m > e /\ IsAgentMessage(log[m])
                  THEN MessageReview(log[m]) ELSE Null],
               LAMBDA r : r # Null)

\* the first populated value of field f among the reviews
FirstOf(reviews, f) ==
  LET hits == {n \in 1..Len(reviews) : Populated(f, reviews[n][f])}
  IN IF hits = {} THEN Null
     ELSE reviews[CHOOSE n \in hits : \A m \in hits : n <= m][f]

RECURSIVE AllFindings(_)
AllFindings(reviews) ==
  IF reviews = <<>> THEN <<>>
  ELSE Head(reviews).findings \o AllFindings(Tail(reviews))

FindingsOf(review) == IF review = Null THEN <<>> ELSE review.findings
Range(seq) == {seq[n] : n \in 1..Len(seq)}
LastLine == log[Len(log)]
AfterExit == status # "failed" /\ Len(log) > 0 /\ IsExited(LastLine)

(***************************************************************************)
(* C5: an exited_review_mode event with no review_output, in a cycle with  *)
(* at least one agent message that normalized to a review, sets lastReview *)
(* from those messages (correctness, verdict, findings) and lastActivity   *)
(* to review.                                                              *)
(***************************************************************************)
C5_ReviewFromAgentMessages ==
  LET msgs == CycleReviews(Len(log)) IN
  (AfterExit /\ Get(PayloadOf(LastLine), "review_output") = Null /\ msgs # <<>>) =>
    /\ lastActivity = S("review")
    /\ lastReview # Null
    /\ lastReview.overallCorrectness = FirstOf(msgs, "overallCorrectness")
    /\ lastReview.verdict = FirstOf(msgs, "verdict")
    /\ lastReview.findings = AllFindings(msgs)

\* the cycle of the repository's test with a second, free-text message
C5_Witness ==
  /\ status = "done"
  /\ Len(log) = 4
  /\ IsEntered(log[1]) /\ IsAgentMessage(log[2]) /\ IsAgentMessage(log[3])
  /\ IsExited(log[4]) /\ Get(PayloadOf(log[4]), "review_output") = Null
  /\ Len(CycleReviews(4)) = 2
  /\ lastActivity = S("review")
  /\ lastReview.verdict = S("incorrect")
  /\ Len(lastReview.findings) = 1

(***************************************************************************)
(* C6: at an exited_review_mode event each scalar field of lastReview      *)
(* comes from review_output when review_output populates it, else from the *)
(* pending partial review; the event's message is used only when neither   *)
(* yields a record.                                                        *)
(***************************************************************************)
C6_OutputThenPending ==
  [][(Reads(IsExited) /\ status' # "failed") =>
       LET out == OutputReviewOf(log'[Len(log')])
           fallback == FallbackReviewOf(log'[Len(log')])
       IN IF out # Null \/ pendingReview # Null
          THEN /\ lastReview' # Null
               /\ \A f \in ScalarFields :
                    lastReview'[f] =
                      IF out # Null /\ Populated(f, out[f]) THEN out[f]
                      ELSE IF pendingReview # Null /\ Populated(f, pendingReview[f])
                        THEN pendingReview[f]
                      ELSE Null
          ELSE IF fallback # Null
          THEN /\ lastReview' # Null
               /\ \A f \in ScalarFields : lastReview'[f] = fallback[f]
          ELSE lastReview' = lastReview]_vars

\* an exit whose review_output gave the summary and the verdict and whose
\* pending review gave the explanation and the confidence
C6_Witness ==
  /\ AfterExit
  /\ LET out == OutputReviewOf(LastLine)
         msgs == CycleReviews(Len(log))
     IN /\ out # Null /\ msgs # <<>>
        /\ Truthy(out.summary) /\ lastReview.summary = out.summary
        /\ Truthy(out.verdict) /\ lastReview.verdict = out.verdict
        /\ FirstOf(msgs, "verdict") # Null /\ FirstOf(msgs, "verdict") # out.verdict
        /\ ~Truthy(out.overallExplanation)
        /\ Truthy(lastReview.overallExplanation)
        /\ lastReview.overallExplanation = FirstOf(msgs, "overallExplanation")
        /\ IsFinite(lastReview.overallConfidence)

(***************************************************************************)
(* C7 as amended: after an exited_review_mode event that yields a review,  *)
(* lastReview.findings is the findings of review_output followed by the    *)
(* findings of the cycle's agent messages in log order: none is dropped,   *)
(* and a finding contributed twice appears twice.                          *)
(***************************************************************************)
Contributed == FindingsOf(OutputReviewOf(LastLine)) \o AllFindings(CycleReviews(Len(log)))
YieldsFromCycle == OutputReviewOf(LastLine) # Null \/ CycleReviews(Len(log)) # <<>>

C7_FindingsConcatenated ==
  (AfterExit /\ YieldsFromCycle) => lastReview.findings = Contributed

\* C7 as claimed: each contributed finding exactly once, so as many findings
\* as distinct findings were contributed
C7_FindingsExactlyOnce ==
  (AfterExit /\ YieldsFromCycle) =>
    /\ Range(lastReview.findings) = Range(Contributed)
    /\ Len(lastReview.findings) = Cardinality(Range(Contributed))

\* two partial records with one finding each, not the same one
C7_Witness ==
  /\ AfterExit
  /\ Len(FindingsOf(OutputReviewOf(LastLine))) = 1
  /\ Len(AllFindings(CycleReviews(Len(log)))) = 1
  /\ Len(lastReview.findings) = 2
  /\ lastReview.findings[1] # lastReview.findings[2]

(***************************************************************************)
(* User items, read off the log                                            *)
(***************************************************************************)
PartsOf(line) ==
  LET content == Get(PayloadOf(line), "content")
  IN IF IsArray(content) THEN content.items ELSE <<>>

\* the part holds a text with a <user_action> block whose action is review
IsTaggedReview(part) ==
  /\ IsObject(part) /\ IsString(Get(part, "text"))
  /\ Get(part, "text").body.k = "tagged"
  /\ Get(part, "text").body.ua
  /\ Get(part, "text").body.action # Null
  /\ LowerCase(Trim(Get(part, "text").body.action)) = S("review")
ResultsOf(part) == Get(part, "text").body.results

\* the results block is there and is not blank
HasResults(part) == ResultsOf(part) # Null /\ Truthy(Trim(ResultsOf(part)))

\* blank, or the JSON encoding of a string that decodes to blank
RECURSIVE DecodesToBlank(_)
DecodesToBlank(str) ==
  \/ ~Truthy(Trim(str))
  \/ /\ JsonParses(Trim(str))
     /\ IsString(JsonParse(Trim(str)))
     /\ DecodesToBlank(JsonParse(Trim(str)))
HasUsableResults(part) == ResultsOf(part) # Null /\ ~DecodesToBlank(ResultsOf(part))

\* what a step that reads a user item does, given which results blocks count
UserItemRule(Counts(_)) ==
  Reads(IsUserItem) =>
    \E parts \in {PartsOf(log'[Len(log')])} :
    \E hits \in {{n \in 1..Len(parts) : IsTaggedReview(parts[n]) /\ Counts(parts[n])}} :
      IF hits # {}
      THEN /\ lastActivity' = S("review")
           /\ lastReview' # Null
           /\ lastReview = Null => lastReview'.source = S("user_action")
           /\ lastReview # Null =>
                \A f \in ScalarFields \cup {"source", "timestamp"} :
                  Populated(f, lastReview[f]) => lastReview'[f] = lastReview[f]
           /\ \E first \in {CHOOSE n \in hits : \A m \in hits : n <= m} :
              \E results \in {normalizeReviewPayload(Trim(ResultsOf(parts[first])),
                                                     S("user_action"), Null)} :
                \A f \in ScalarFields \ {"verdict"} :
                  (lastReview = Null \/ ~Populated(f, Get(lastReview, f))) =>
                    lastReview'[f] = results[f]
      ELSE /\ lastActivity' = S("user")
           /\ lastReview' = lastReview

(***************************************************************************)
(* C8 as amended: a user response_item sets lastActivity to review iff one *)
(* of its content parts holds a tagged block whose action is review and    *)
(* whose results block is not blank and is not the JSON encoding of a      *)
(* blank string; the results are merged into lastReview without            *)
(* overwriting a populated field (source user_action when there was no     *)
(* review); otherwise lastActivity becomes user and lastReview is          *)
(* unchanged.                                                              *)
(***************************************************************************)
C8_UserActionReview == [][UserItemRule(HasUsableResults)]_vars

\* C8 as claimed: every results block that is not blank counts
C8_AnyResultsCount == [][UserItemRule(HasResults)]_vars

\* a user_action review merged into the review an exit event left: the summary
\* is still the exit's, the activity is review
C8_Witness ==
  /\ status = "done"
  /\ Len(log) >= 2
  /\ IsExited(log[Len(log) - 1])
  /\ IsUserItem(LastLine)
  /\ \E n \in 1..Len(PartsOf(LastLine)) :
       IsTaggedReview(PartsOf(LastLine)[n]) /\ HasUsableResults(PartsOf(LastLine)[n])
  /\ lastActivity = S("review")
  /\ lastReview # Null
  /\ lastReview.source = S("exited_review_mode")
  /\ FallbackReviewOf(log[Len(log) - 1]) # Null
  /\ lastReview.summary = FallbackReviewOf(log[Len(log) - 1]).summary
  /\ Len(lastReview.findings) = 1

(***************************************************************************)
(* Activity, read off the log                                              *)
(***************************************************************************)
IsItem(line) == TypeOf(line) = S("response_item")
RoleOf(line) == Get(PayloadOf(line), "role")
ItemTypeOf(line) == Get(PayloadOf(line), "type")

\* does the exit event at line n yield a review
ExitYields(n) ==
  \/ OutputReviewOf(log[n]) # Null
  \/ CycleReviews(n) # <<>>
  \/ FallbackReviewOf(log[n]) # Null

\* does line n classify the activity, and as what
Classifies(n) ==
  \/ IsExited(log[n]) /\ ExitYields(n)
  \/ IsItem(log[n]) /\ RoleOf(log[n]) \in {S("user"), S("assistant")}
  \/ IsItem(log[n]) /\ ItemTypeOf(log[n]) \in {S("function_call"), S("reasoning")}
HoldsReview(line) ==
  \E n \in 1..Len(PartsOf(line)) :
    IsTaggedReview(PartsOf(line)[n]) /\ HasUsableResults(PartsOf(line)[n])
ActivityOf(line) ==
  IF IsExited(line) THEN S("review")
  ELSE IF RoleOf(line) = S("user")
    THEN (IF HoldsReview(line) THEN S("review") ELSE S("user"))
  ELSE IF RoleOf(line) = S("assistant") THEN S("assistant")
  ELSE IF ItemTypeOf(line) = S("function_call") THEN S("tool")
  ELSE S("thinking")

\* records that never count as activity
IsInert(line) ==
  \/ IsJunk(line) \/ IsUnrecognized(line)
  \/ IsTurnContext(line) \/ IsTokenCount(line)
  \/ IsEntered(line) \/ IsAgentMessage(line)

(***************************************************************************)
(* C9: lastActivity is the classification of the last record that is a     *)
(* user or assistant response_item, a function_call (tool), a reasoning    *)
(* item (thinking) or an exited_review_mode event that yielded a review;   *)
(* turn_context, token_count, entered_review_mode, agent_message and       *)
(* unrecognized records change neither lastActivity nor lastReview.        *)
(***************************************************************************)
C9_LastActivityClassified ==
  /\ [](status # "failed" =>
         LET hits == {n \in 1..Len(log) : Classifies(n)}
         IN lastActivity =
              IF hits = {} THEN Null
              ELSE ActivityOf(log[CHOOSE n \in hits : \A m \in hits : m <= n]))
  /\ [][Reads(IsInert) => UNCHANGED <<lastActivity, lastReview>>]_vars

\* a review, then a tool call, then an agent message outside any cycle: the
\* activity is still tool
C9_Witness ==
  /\ status = "done"
  /\ Len(log) = 3
  /\ IsExited(log[1]) /\ ExitYields(1)
  /\ ItemTypeOf(log[2]) = S("function_call")
  /\ IsAgentMessage(log[3])
  /\ lastActivity = S("tool")
  /\ lastReview # Null

(***************************************************************************)
(* Width truncator: truncateToTerminal.  A text is its sequence of UTF-16  *)
(* code units; i is the 0-based index of the source.                       *)
(***************************************************************************)
MaxText == 3
MaxColumns == 4

\* \p{Mark}, as far as the texts below draw on it: U+0300..U+036F
IsMark(codePoint) == codePoint \in 768..879
\* \p{Extended_Pictographic}, as far as the texts below draw on it:
\* U+2764, U+1F552, U+1F642, U+1F916
IsExtendedPictographic(codePoint) == codePoint \in {10084, 128338, 128578, 129302}

isFullWidthCodePoint(codePoint) ==
  /\ codePoint >= 4352
  /\ \/ codePoint <= 4447
     \/ codePoint = 9001
     \/ codePoint = 9002
     \/ (codePoint >= 11904 /\ codePoint <= 12350)
     \/ (codePoint >= 12352 /\ codePoint <= 42191)
     \/ (codePoint >= 44032 /\ codePoint <= 55203)
     \/ (codePoint >= 63744 /\ codePoint <= 64255)
     \/ (codePoint >= 65040 /\ codePoint <= 65049)
     \/ (codePoint >= 65072 /\ codePoint <= 65135)
     \/ (codePoint >= 65280 /\ codePoint <= 65376)
     \/ (codePoint >= 65504 /\ codePoint <= 65510)
     \/ (codePoint >= 127744 /\ codePoint <= 128591)
     \/ (codePoint >= 129280 /\ codePoint <= 129535)
     \/ (codePoint >= 129648 /\ codePoint <= 129791)
     \/ (codePoint >= 131072 /\ codePoint <= 262141)

\* mutant: the zero-width joiner takes a column
codePointWidth_JoinerCounts(codePoint) ==
  IF codePoint = 0 THEN 0
  ELSE IF codePoint <= 31 \/ (codePoint >= 127 /\ codePoint <= 159) THEN 0
  ELSE IF codePoint >= 65024 /\ codePoint <= 65039 THEN 0
  ELSE IF IsMark(codePoint) THEN 0
  ELSE IF IsExtendedPictographic(codePoint) THEN 2
  ELSE IF isFullWidthCodePoint(codePoint) THEN 2
  ELSE 1

codePointWidth(codePoint) ==
  IF codePoint = 0 THEN 0
  ELSE IF codePoint <= 31 \/ (codePoint >= 127 /\ codePoint <= 159) THEN 0
  ELSE IF codePoint = 8205 THEN 0
  ELSE IF codePoint >= 65024 /\ codePoint <= 65039 THEN 0
  ELSE IF IsMark(codePoint) THEN 0
  ELSE IF IsExtendedPictographic(codePoint) THEN 2
  ELSE IF isFullWidthCodePoint(codePoint) THEN 2
  ELSE 1

IsHighSurrogate(unit) == unit >= 55296 /\ unit <= 56319
IsLowSurrogate(unit) == unit >= 56320 /\ unit <= 57343

\* String.prototype.codePointAt(at), at 0-based and inside the text
codePointAt(t, at) ==
  IF IsHighSurrogate(t[at + 1]) /\ at + 2 <= Len(t) /\ IsLowSurrogate(t[at + 2])
  THEN 65536 + (t[at + 1] - 55296) * 1024 + (t[at + 2] - 56320)
  ELSE t[at + 1]

\* String.fromCodePoint
fromCodePoint(codePoint) ==
  IF codePoint > 65535
  THEN <<55296 + ((codePoint - 65536) \div 1024), 56320 + ((codePoint - 65536) % 1024)>>
  ELSE <<codePoint>>

\* the code points texts are made of: tab, A, combining acute, zero-width
\* joiner, variation selector 16, a heart, a CJK ideograph, a smiley, and a
\* high surrogate on its own
TextCodePoints == {9, 65, 769, 8205, 65039, 10084, 20013, 128578, 55357}

RECURSIVE Encode(_)
Encode(codePoints) ==
  IF codePoints = <<>> THEN <<>>
  ELSE fromCodePoint(Head(codePoints)) \o Encode(Tail(codePoints))

Texts ==
  {Encode(cps) : cps \in UNION {[1..n -> TextCodePoints] : n \in 0..MaxText}}
\* undefined, a negative number, zero, and the positive budgets
Budgets == {Null} \cup {Num(n) : n \in -1..MaxColumns}

InitTrunc ==
  /\ log = <<>>
  /\ status = "scanning"
  /\ lastContext = Null
  /\ lastTokenCount = Null
  /\ lastTimestamp = Null
  /\ lastAssistantMessageTime = Null
  /\ lastActivity = Null
  /\ lastReview = Null
  /\ reviewMode = FALSE
  /\ pendingReview = Null
  /\ text \in Texts
  /\ columns \in Budgets
  /\ i = 0 /\ width = 0 /\ result = <<>>
  /\ pc = "call"
  /\ calls = 1 /\ given = text
  /\ arg = Null /\ argc = 0 /\ options = Null /\ detail = Null /\ composed = Null
  /\ stage = "idle"
  /\ NoWatch

\* if (!columns || columns <= 0) return text; let width = 0; let result = ''
Enter ==
  /\ pc = "call"
  /\ IF ~Truthy(columns) \/ columns.n <= 0
     THEN result' = text /\ pc' = "done"
     ELSE result' = <<>> /\ pc' = "loop"
  /\ width' = 0 /\ i' = 0
  /\ UNCHANGED <<text, columns, calls, given>>
  /\ UNCHANGED <<reader, composer, watcher, gatherer>>

\* mutant: the loop stops as soon as the budget is reached
Iterate_StopsWhenFull ==
  /\ pc = "loop"
  /\ i < Len(text)
  /\ LET codePoint == codePointAt(text, i)
         charWidth == codePointWidth(codePoint)
     IN IF width + charWidth >= columns.n
        THEN pc' = "done" /\ UNCHANGED <<i, width, result>>
        ELSE /\ result' = result \o fromCodePoint(codePoint)
             /\ width' = width + charWidth
             /\ i' = (IF codePoint > 65535 THEN i + 1 ELSE i) + 1
             /\ pc' = "loop"
  /\ UNCHANGED <<text, columns, calls, given>>
  /\ UNCHANGED <<reader, composer, watcher, gatherer>>

\* mutant: the index is not moved past the low surrogate of a pair
Iterate_NoSurrogateSkip ==
  /\ pc = "loop"
  /\ i < Len(text)
  /\ LET codePoint == codePointAt(text, i)
         charWidth == codePointWidth(codePoint)
     IN IF width + charWidth > columns.n
        THEN pc' = "done" /\ UNCHANGED <<i, width, result>>
        ELSE /\ result' = result \o fromCodePoint(codePoint)
             /\ width' = width + charWidth
             /\ i' = i + 1
             /\ pc' = "loop"
  /\ UNCHANGED <<text, columns, calls, given>>
  /\ UNCHANGED <<reader, composer, watcher, gatherer>>

\* one iteration of the for loop, break included
Iterate ==
  /\ pc = "loop"
  /\ i < Len(text)
  /\ LET codePoint == codePointAt(text, i)
         charWidth == codePointWidth(codePoint)
     IN IF width + charWidth > columns.n
        THEN pc' = "done" /\ UNCHANGED <<i, width, result>>
        ELSE /\ result' = result \o fromCodePoint(codePoint)
             /\ width' = width + charWidth
             /\ i' = (IF codePoint > 65535 THEN i + 1 ELSE i) + 1
             /\ pc' = "loop"
  /\ UNCHANGED <<text, columns, calls, given>>
  /\ UNCHANGED <<reader, composer, watcher, gatherer>>

\* the loop condition fails: return result
Leave ==
  /\ pc = "loop"
  /\ i >= Len(text)
  /\ pc' = "done"
  /\ UNCHANGED <<text, columns, i, width, result, calls, given>>
  /\ UNCHANGED <<reader, composer, watcher, gatherer>>

\* the caller truncates the returned string again, to the same budget
Retruncate ==
  /\ pc = "done"
  /\ calls = 1
  /\ text' = result
  /\ calls' = calls + 1
  /\ pc' = "call"
  /\ UNCHANGED <<columns, i, width, result, given>>
  /\ UNCHANGED <<reader, composer, watcher, gatherer>>

NextTrunc == Enter \/ Iterate \/ Leave \/ Retruncate
SpecTrunc == InitTrunc /\ [][NextTrunc]_vars

(***************************************************************************)
(* What truncation should return, read off the text                        *)
(***************************************************************************)
\* the code points of a text, a surrogate pair being one
RECURSIVE Decode(_, _)
Decode(t, at) ==
  IF at >= Len(t) THEN <<>>
  ELSE <<codePointAt(t, at)>>
       \o Decode(t, at + (IF codePointAt(t, at) > 65535 THEN 2 ELSE 1))

RECURSIVE DisplayWidth(_)
DisplayWidth(codePoints) ==
  IF codePoints = <<>> THEN 0
  ELSE codePointWidth(Head(codePoints)) + DisplayWidth(Tail(codePoints))

\* the longest prefix of the code points that fits the budget
FittingPrefix(codePoints, budget) ==
  LET fits == {n \in 0..Len(codePoints) :
                 DisplayWidth(SubSeq(codePoints, 1, n)) <= budget}
  IN SubSeq(codePoints, 1, CHOOSE n \in fits : \A m \in fits : m <= n)

(***************************************************************************)
(* C10: for a positive budget truncateToTerminal returns the longest       *)
(* prefix of the text, by code point, whose code point widths sum to at    *)
(* most the budget; for a missing or non-positive budget it returns the    *)
(* text unchanged.                                                         *)
(***************************************************************************)
C10_LongestFittingPrefix ==
  pc = "done" =>
    result = IF columns = Null \/ columns.n <= 0 THEN text
             ELSE Encode(FittingPrefix(Decode(text, 0), columns.n))

\* a cut in front of a wide code point that no longer fits, after a code
\* point of width 1 and one of width 0 were kept
C10_Witness ==
  /\ pc = "done"
  /\ columns # Null /\ columns.n = 2
  /\ Len(Decode(text, 0)) = 3
  /\ codePointWidth(Decode(text, 0)[1]) = 1
  /\ codePointWidth(Decode(text, 0)[2]) = 0
  /\ codePointWidth(Decode(text, 0)[3]) = 2
  /\ Decode(result, 0) = SubSeq(Decode(text, 0), 1, 2)

(***************************************************************************)
(* Clusters, read off the text                                             *)
(***************************************************************************)
IsJoiner(codePoint) == codePoint = 8205
IsVariationSelector(codePoint) == codePoint >= 65024 /\ codePoint <= 65039
IsControl(codePoint) == codePoint <= 31 \/ (codePoint >= 127 /\ codePoint <= 159)
\* a combining mark, a variation selector or the zero-width joiner
IsZeroWidth(codePoint) ==
  IsMark(codePoint) \/ IsVariationSelector(codePoint) \/ IsJoiner(codePoint)
IsVisible(codePoint) == ~IsZeroWidth(codePoint) /\ ~IsControl(codePoint)

\* the code points of the text of the call and how many of them the result keeps
CodePointsOfText == Decode(text, 0)
Kept == Len(Decode(result, 0))

\* positions from..to hold one emoji: pictographs joined by zero-width joiners
IsJoined(codePoints, from, to) ==
  /\ from < to
  /\ (to - from) % 2 = 0
  /\ \A n \in from..to :
       IF (n - from) % 2 = 0
       THEN IsExtendedPictographic(codePoints[n])
       ELSE IsJoiner(codePoints[n])

(***************************************************************************)
(* C11: truncation never splits an emoji made of visible code points       *)
(* joined by zero-width joiners: the result holds the whole joined         *)
(* sequence or nothing of it, never a leading part.                        *)
(***************************************************************************)
C11_JoinedEmojiKeptWhole ==
  pc = "done" =>
    \A from \in 1..Len(CodePointsOfText) : \A to \in from..Len(CodePointsOfText) :
      IsJoined(CodePointsOfText, from, to) => ~(from <= Kept /\ Kept < to)

(***************************************************************************)
(* C12: whenever a visible code point is kept, the zero-width code points  *)
(* (combining marks, variation selectors, zero-width joiners) that         *)
(* directly follow it are kept too, also when the visible code point       *)
(* fills the budget exactly.                                               *)
(***************************************************************************)
C12_ZeroWidthFollowersKept ==
  pc = "done" =>
    \A at \in 1..Kept :
      IsVisible(CodePointsOfText[at]) =>
        \A to \in (at + 1)..Len(CodePointsOfText) :
          (\A n \in (at + 1)..to : IsZeroWidth(CodePointsOfText[n])) => to <= Kept

\* a letter fills a budget of one column; the mark after it is kept and the
\* letter after the mark is cut
C12_Witness ==
  /\ pc = "done"
  /\ calls = 1
  /\ columns = Num(1)
  /\ CodePointsOfText = <<65, 769, 65>>
  /\ Decode(result, 0) = <<65, 769>>

(***************************************************************************)
(* C13: truncation is idempotent: truncating the returned string again to  *)
(* the same budget returns it unchanged.                                   *)
(***************************************************************************)
C13_Idempotent == (pc = "done" /\ calls = 2) => result = text

\* the first call cut the given text in front of a surrogate pair and the
\* second call returned what it was given
C13_Witness ==
  /\ pc = "done"
  /\ calls = 2
  /\ Len(text) < Len(given)
  /\ Len(text) > 0
  /\ codePointAt(given, Len(text)) > 65535
  /\ result = text

(***************************************************************************)
(* Field registry and line composer.  A display string is the sequence of  *)
(* its pieces of text; a glyph is one piece, named in parentheses.         *)
(***************************************************************************)
CANONICAL_FIELDS ==
  <<"sound", "time", "error", "model", "approval", "sandbox", "daily", "weekly",
    "recent", "total", "activity", "directory">>

FIELD_ALIASES ==
  ("sound" :> "sound") @@ ("speaker" :> "sound") @@
  ("time" :> "time") @@ ("timestamp" :> "time") @@ ("age" :> "time") @@
  ("error" :> "error") @@
  ("model" :> "model") @@ ("agent" :> "model") @@
  ("approval" :> "approval") @@ ("policy" :> "approval") @@
  ("sandbox" :> "sandbox") @@ ("sandbox-policy" :> "sandbox") @@ ("env" :> "sandbox") @@
  ("primary" :> "daily") @@ ("daily" :> "daily") @@ ("quota" :> "daily") @@
  ("secondary" :> "weekly") @@ ("weekly" :> "weekly") @@ ("billing" :> "weekly") @@
  ("recent" :> "recent") @@ ("recent-tokens" :> "recent") @@ ("latest" :> "recent") @@
  ("total" :> "total") @@ ("total-tokens" :> "total") @@ ("cumulative" :> "total") @@
  ("activity" :> "activity") @@ ("role" :> "activity") @@ ("action" :> "activity") @@
  ("directory" :> "directory") @@ ("cwd" :> "directory") @@ ("path" :> "directory")

\* mutant: the default order is the order of CANONICAL_FIELDS
DEFAULT_FORMAT_ORDER_Canonical == CANONICAL_FIELDS

DEFAULT_FORMAT_ORDER ==
  <<"sound", "time", "activity", "daily", "weekly", "recent", "total", "error",
    "model", "approval", "sandbox", "directory">>

\* key.trim() and key.toLowerCase(), on the spellings the arguments use
TrimKey(key) ==
  CASE key = " model " -> "model"
    [] key = " " -> ""
    [] OTHER -> key
LowerKey(key) ==
  CASE key = "CWD" -> "cwd"
    [] key = "Time" -> "time"
    [] key = "Bogus" -> "bogus"
    [] OTHER -> key
\* (a name every object inherits, such as constructor, finds a function in
\* FIELD_ALIASES, which is no canonical field: Null as well)


ArrayIncludes(seq, v) == \E n \in 1..Len(seq) : seq[n] = v

\* mutant: names are matched as typed
normalizeFieldKey_CaseSensitive(key) ==
  LET name == TrimKey(key)
  IN IF name \in DOMAIN FIELD_ALIASES /\ ArrayIncludes(CANONICAL_FIELDS, FIELD_ALIASES[name])
     THEN S(FIELD_ALIASES[name])
     ELSE Null

\* the canonical key, or Null
normalizeFieldKey(key) ==
  LET name == LowerKey(TrimKey(key))
  IN IF name \in DOMAIN FIELD_ALIASES /\ ArrayIncludes(CANONICAL_FIELDS, FIELD_ALIASES[name])
     THEN S(FIELD_ALIASES[name])
     ELSE Null

\* a derived display string
Text(c) == [k |-> "text", c |-> c]
\* a path: the home directory (when home) followed by rest, "/" the separator
PathText(home, rest) ==
  [k |-> "str", pad |-> FALSE, body |-> [k |-> "path", home |-> home, rest |-> rest]]
HomeDir == <<"/", "home", "/", "me">>
\* a function threw
Threw == [k |-> "throw"]

RECURSIVE JoinWith(_, _)
JoinWith(parts, sep) ==
  IF parts = <<>> THEN <<>>
  ELSE IF Len(parts) = 1 THEN Head(parts)
  ELSE Head(parts) \o sep \o JoinWith(Tail(parts), sep)

\* String(v), `${v}`
Chars(v) ==
  CASE v.k = "text" -> v.c
    [] v.k = "null" -> <<"null">>
    [] v.k = "bool" -> IF v.b THEN <<"true">> ELSE <<"false">>
    [] v.k = "num" -> <<ToString(v.n)>>
    [] v.k = "str" /\ v.body.k = "words" ->
         (IF v.pad THEN <<" ">> ELSE <<>>)
         \o JoinWith([n \in 1..Len(v.body.w) |-> <<v.body.w[n]>>], <<" ">>)
         \o (IF v.pad THEN <<" ">> ELSE <<>>)
    [] v.k = "str" /\ v.body.k = "path" ->
         (IF v.body.home THEN HomeDir ELSE <<>>) \o v.body.rest
    [] v.k = "str" -> <<"(text)">>
    [] v.k = "arr" -> <<"(items)">>
    [] OTHER -> <<"[object Object]">>

\* value == null || value === ''
IsBlank(value) == value = Null \/ (value.k \in {"str", "text"} /\ Chars(value) = <<>>)

\* Date.now(), in milliseconds, and the local time of day it falls on
DateNow == 1000000000
NowHours == 10
NowMinutes == 30

Units ==
  <<[label |-> "d", value |-> 86400], [label |-> "h", value |-> 3600],
    [label |-> "m", value |-> 60], [label |-> "s", value |-> 1]>>

\* the loop of formatDuration, from unit n on
RECURSIVE durationParts(_, _, _, _)
durationParts(n, parts, remaining, maxUnits) ==
  IF n > Len(Units) THEN parts
  ELSE IF Units[n].value > remaining /\ parts = <<>>
  THEN durationParts(n + 1, parts, remaining, maxUnits)
  ELSE LET count == remaining \div Units[n].value
           pushed == count > 0 \/ parts # <<>>
           parts2 == IF pushed
                     THEN Append(parts, <<ToString(count), Units[n].label>>)
                     ELSE parts
           remaining2 == IF pushed THEN remaining - count * Units[n].value
                         ELSE remaining
       IN IF Len(parts2) >= maxUnits THEN parts2
          ELSE durationParts(n + 1, parts2, remaining2, maxUnits)

\* seconds is a number here (formatAgoShort has excluded NaN)
formatDuration(seconds, maxUnits) ==
  LET abs == IF seconds < 0 THEN 0 ELSE seconds
      parts == durationParts(1, <<>>, abs, maxUnits)
  IN IF parts # <<>> THEN JoinWith(parts, <<" ">>) ELSE <<"0", "s">>

\* duration.replace(/\s+/g, '')
StripSpaces(chars) == SelectSeq(chars, LAMBDA c : c # " ")

\* mutant: the two largest units
formatAgoShort_TwoUnits(date) ==
  IF ~Truthy(date) THEN Text(<<"n/a">>)
  ELSE IF date.k # "date" THEN Threw
  ELSE LET diffSeconds == (DateNow - date.t) \div 1000
       IN IF diffSeconds < 5 THEN Text(<<"now">>)
          ELSE Text(StripSpaces(formatDuration(diffSeconds, 2)))

formatAgoShort(date) ==
  IF ~Truthy(date) THEN Text(<<"n/a">>)
  ELSE IF date.k # "date" THEN Threw
  ELSE LET diffSeconds == (DateNow - date.t) \div 1000
       IN IF diffSeconds < 5 THEN Text(<<"now">>)
          ELSE Text(StripSpaces(formatDuration(diffSeconds, 1)))

\* Intl.NumberFormat('en-US', {notation: 'compact', maximumFractionDigits: 1})
\* on a non-negative integer below a billion
compactFormat(n) ==
  LET scaled(unit) ==
        LET tenths == (n + unit \div 20) \div (unit \div 10)
        IN IF tenths % 10 = 0 THEN <<ToString(tenths \div 10)>>
           ELSE <<ToString(tenths \div 10), ".", ToString(tenths % 10)>>
  IN IF n < 1000 THEN <<ToString(n)>>
     ELSE IF n < 999950 THEN scaled(1000) \o <<"K">>
     ELSE scaled(1000000) \o <<"M">>

formatCompact(value) ==
  IF value.k = "num" THEN Text(compactFormat(value.n)) ELSE Text(<<"n/a">>)

Pad2(n) == IF n < 10 THEN <<"0", ToString(n)>> ELSE <<ToString(n)>>

\* seconds is null or a number; the target falls on the day of DateNow or on
\* a later day of the same month
formatResetTarget(seconds) ==
  IF seconds.k # "num" THEN <<"n/a">>
  ELSE IF seconds.n <= 0 THEN <<"now">>
  ELSE LET minutes == NowHours * 60 + NowMinutes + seconds.n \div 60
       IN IF minutes < 1440
          THEN Pad2(minutes \div 60) \o <<":">> \o Pad2(minutes % 60)
          ELSE <<"(month)", "/", "(day)">>

\* the reset time comes from resets_in_seconds, a number when present
resolveResetSeconds(windowData) ==
  IF ~Truthy(windowData) \/ ~IsObject(windowData) THEN Null
  ELSE IF IsFinite(Get(windowData, "resets_in_seconds"))
  THEN Get(windowData, "resets_in_seconds")
  ELSE Null

formatRateWindow(windowData) ==
  IF ~Truthy(windowData) THEN Text(<<"n/a">>)
  ELSE LET used == IF Get(windowData, "used_percent") # Null
                   THEN Chars(Get(windowData, "used_percent")) \o <<"%">>
                   ELSE <<"n/a">>
       IN Text(used \o <<"/">> \o formatResetTarget(resolveResetSeconds(windowData)))

\* the spellings with the vendor prefix and what follows the prefix
AfterVendorPrefix ==
  ("gpt-test-model" :> <<"test-model">>) @@ ("gpt-5" :> <<"5">>) @@ ("gpt-" :> <<>>)

\* model is a string of one word at most
stripModelPrefix(model) ==
  IF ~IsString(model) THEN model
  ELSE IF model.body.k = "words" /\ ~model.pad /\ Len(model.body.w) = 1
          /\ model.body.w[1] \in DOMAIN AfterVendorPrefix
  THEN Text(AfterVendorPrefix[model.body.w[1]])
  ELSE model

\* p.startsWith(home) ? p.slice(home.length) : p, for a path not under home
\* that does not begin like home
trimPath(p) ==
  IF ~Truthy(p) THEN Text(<<>>)
  ELSE IF ~IsString(p) THEN Threw
  ELSE LET stripped == IF p.body.k = "path" THEN p.body.rest ELSE Chars(p)
           unrooted == IF stripped # <<>> /\ Head(stripped) = "/"
                       THEN Tail(stripped) ELSE stripped
           seps == {n \in 1..Len(unrooted) : unrooted[n] = "/"}
           first == IF seps = {} THEN 0 ELSE CHOOSE n \in seps : \A m \in seps : n <= m
           elided == IF first = 2 /\ unrooted[1] = "dev"
                     THEN SubSeq(unrooted, first + 1, Len(unrooted))
                     ELSE unrooted
       IN IF elided # <<>> THEN Text(elided) ELSE Text(<<".">>)

resolveSoundStatusIcon(opts) ==
  IF ~opts.showSoundStatus THEN Null
  ELSE IF opts.sound = "off" THEN Null
  ELSE IF opts.soundMuted THEN Text(<<"(muted)">>)
  ELSE Text(<<"(speaker)">>)

DefaultLabel ==
  [sound |-> <<>>, time |-> <<"(clock)">>, error |-> <<"(cross)">>,
   model |-> <<"(robot)">>, approval |-> <<"(passport)">>,
   sandbox |-> <<"(test-tube)">>, daily |-> <<"(five-o-clock)">>,
   weekly |-> <<"(calendar)">>, recent |-> <<"(arrows)">>,
   total |-> <<"(package)">>, activity |-> <<"(thought)">>,
   directory |-> <<"(folder)">>]

activityMap ==
  [user |-> <<"(bust)">>, assistant |-> <<"(interrobang)">>, tool |-> <<"(wrench)">>,
   thinking |-> <<"(thinking)">>, review |-> <<"(memo)">>]

\* FIELD_DEFINITIONS[key].build(c): a value, Null, or Threw
soundBuild(c) == resolveSoundStatusIcon(c.options)
timeBuild(c) == formatAgoShort(Get(Get(c.detail, "log"), "mtime"))
errorBuild(c) == Or(Get(c.detail, "error"), Null)
modelBuild(c) ==
  IF IsString(Get(c.context, "model")) /\ Truthy(Get(c.context, "model"))
  THEN stripModelPrefix(Get(c.context, "model"))
  ELSE Null
approvalBuild(c) ==
  IF c.minimal THEN Null
  ELSE IF Truthy(Get(c.context, "approval_policy"))
  THEN Get(c.context, "approval_policy")
  ELSE Null
sandboxBuild(c) ==
  LET policy == Get(c.context, "sandbox_policy")
  IN IF c.minimal THEN Null
     ELSE IF Truthy(policy) /\ Truthy(Get(policy, "mode"))
     THEN IF Get(policy, "network_access") = Bool(FALSE)
          THEN Text(Chars(Get(policy, "mode")) \o <<"(no-entry)">>)
          ELSE Get(policy, "mode")
     ELSE Null
dailyBuild(c) ==
  IF Truthy(c.rateLimits) /\ Truthy(Get(c.rateLimits, "primary"))
  THEN formatRateWindow(Get(c.rateLimits, "primary"))
  ELSE Null
weeklyBuild(c) ==
  IF Truthy(c.rateLimits) /\ Truthy(Get(c.rateLimits, "secondary"))
  THEN formatRateWindow(Get(c.rateLimits, "secondary"))
  ELSE Null
recentBuild(c) ==
  IF Truthy(c.tokenInfo) /\ Truthy(Get(c.tokenInfo, "last_token_usage"))
     /\ Get(Get(c.tokenInfo, "last_token_usage"), "total_tokens").k = "num"
  THEN formatCompact(Get(Get(c.tokenInfo, "last_token_usage"), "total_tokens"))
  ELSE IF ~Truthy(c.tokenInfo) THEN Text(<<"n/a">>)
  ELSE Null
totalBuild(c) ==
  IF Truthy(c.tokenInfo) /\ Truthy(Get(c.tokenInfo, "total_token_usage"))
     /\ Get(Get(c.tokenInfo, "total_token_usage"), "total_tokens").k = "num"
  THEN formatCompact(Get(Get(c.tokenInfo, "total_token_usage"), "total_tokens"))
  ELSE Null
activityBuild(c) ==
  LET activity == Get(c.detail, "lastActivity")
  IN IF c.minimal THEN Null
     ELSE IF ~Truthy(activity) THEN Null
     ELSE IF IsString(activity) /\ activity.body.k = "words" /\ ~activity.pad
             /\ Len(activity.body.w) = 1
             /\ activity.body.w[1] \in DOMAIN activityMap
     THEN Text(activityMap[activity.body.w[1]])
     ELSE activity
\* mutant: the directory is built in minimal mode too
directoryBuild_IgnoresMinimal(c) ==
  IF Truthy(Get(c.context, "cwd"))
  THEN LET display == trimPath(Get(c.context, "cwd"))
       IN IF display = Threw THEN Threw
          ELSE IF ~IsBlank(display) THEN display ELSE Null
  ELSE Null

directoryBuild(c) ==
  IF c.minimal THEN Null
  ELSE IF Truthy(Get(c.context, "cwd"))
  THEN LET display == trimPath(Get(c.context, "cwd"))
       IN IF display = Threw THEN Threw
          ELSE IF ~IsBlank(display) THEN display ELSE Null
  ELSE Null

Build(key, c) ==
  CASE key = "sound" -> soundBuild(c)
    [] key = "time" -> timeBuild(c)
    [] key = "error" -> errorBuild(c)
    [] key = "model" -> modelBuild(c)
    [] key = "approval" -> approvalBuild(c)
    [] key = "sandbox" -> sandboxBuild(c)
    [] key = "daily" -> dailyBuild(c)
    [] key = "weekly" -> weeklyBuild(c)
    [] key = "recent" -> recentBuild(c)
    [] key = "total" -> totalBuild(c)
    [] key = "activity" -> activityBuild(c)
    [] key = "directory" -> directoryBuild(c)

\* the order the pieces are built in
ResolveOrder(orderSource) ==
  LET RECURSIVE resolve(_, _)
      resolve(n, order) ==
        IF n > Len(orderSource) THEN order
        ELSE LET key == normalizeFieldKey(orderSource[n])
             IN IF key # Null /\ ~ArrayIncludes(order, key.body.w[1])
                THEN resolve(n + 1, Append(order, key.body.w[1]))
                ELSE resolve(n + 1, order)
  IN resolve(1, <<>>)

\* mutant: an empty override falls back to the default label
Piece_EmptyOverrideIgnored(key, value, labelOverrides) ==
  LET label == IF key \in DOMAIN labelOverrides /\ labelOverrides[key] # <<>>
               THEN labelOverrides[key]
               ELSE DefaultLabel[key]
  IN label \o Chars(value)

\* one piece: label and value, or the value alone
Piece(key, value, labelOverrides) ==
  LET label == IF key \in DOMAIN labelOverrides THEN labelOverrides[key]
               ELSE DefaultLabel[key]
  IN label \o Chars(value)

\* the loop over order, from position n on: the pieces, or Threw
RECURSIVE Pieces(_, _, _, _)
Pieces(order, n, c, labelOverrides) ==
  IF n > Len(order) THEN Arr(<<>>)
  ELSE LET value == Build(order[n], c)
           rest == Pieces(order, n + 1, c, labelOverrides)
       IN IF value = Threw \/ rest = Threw THEN Threw
          ELSE IF IsBlank(value) THEN rest
          ELSE Arr(<<Piece(order[n], value, labelOverrides)>> \o rest.items)

NoStatus == <<"(bolt)", " ", "no", " ", "status">>

fieldContext(d, opts) ==
  LET tokenCount == Or(Get(d, "lastTokenCount"), Null)
  IN [detail |-> d,
      minimal |-> opts.minimal,
      context |-> Or(Get(d, "lastContext"), EmptyObject),
      tokenInfo |-> IF Truthy(tokenCount) THEN Or(Get(tokenCount, "info"), Null)
                    ELSE Null,
      rateLimits |-> IF Truthy(tokenCount)
                     THEN Or(Get(tokenCount, "rate_limits"), Null)
                     ELSE Null,
      options |-> opts]

\* the composed line as a Text, or Threw
formatSessionSummary(d, opts) ==
  LET orderSource == IF IsArray(opts.formatOrder) /\ Len(opts.formatOrder.items) > 0
                     THEN opts.formatOrder.items
                     ELSE DEFAULT_FORMAT_ORDER
      pieces == Pieces(ResolveOrder(orderSource), 1, fieldContext(d, opts),
                       opts.labelOverrides)
  IN IF pieces = Threw THEN Threw
     ELSE IF pieces.items = <<>> THEN Text(NoStatus)
     ELSE Text(JoinWith(pieces.items, <<" ">>))

\* raw.split(',').map(trim).filter(nonempty), then the loop: the canonical
\* keys in first-occurrence order, or Threw
parseFormatList(parts) ==
  LET named == SelectSeq([n \in 1..Len(parts) |-> TrimKey(parts[n])],
                         LAMBDA part : part # "")
      RECURSIVE collect(_, _)
      collect(n, keys) ==
        IF n > Len(named) THEN Arr(keys)
        ELSE LET normalized == normalizeFieldKey(named[n])
             IN IF normalized = Null THEN Threw
                ELSE IF ArrayIncludes(keys, normalized.body.w[1])
                THEN collect(n + 1, keys)
                ELSE collect(n + 1, Append(keys, normalized.body.w[1]))
  IN IF named = <<>> THEN Threw ELSE collect(1, <<>>)

\* the options parseArgs starts from; showSoundStatus and soundMuted are
\* absent (falsy) until runWatch sets them
DefaultOptions ==
  [minimal |-> FALSE, watch |-> FALSE, formatOrder |-> Null,
   labelOverrides |-> <<>>, sound |-> "off",
   showSoundStatus |-> FALSE, soundMuted |-> FALSE,
   limit |-> 1, soundVolume |-> 100, soundReverb |-> "default"]

\* Number(value) for the spellings the arguments use: an integer, or a value
\* Number.isInteger rejects (a fraction, NaN for text and for undefined)
NotInteger == [k |-> "nan"]
Numerals ==
  [spelling \in {"50", "0", "101", " 7 ", "1.5", "abc", ""} |->
     CASE spelling = "50" -> Num(50)
       [] spelling = "0" -> Num(0)
       [] spelling = "101" -> Num(101)
       [] spelling = " 7 " -> Num(7)
       [] spelling = "" -> Num(0)
       [] OTHER -> NotInteger]
NumberOf(a) == IF a.given THEN Numerals[a.raw] ELSE NotInteger

\* mutant: any integer is taken as the volume
parseArg_AnyVolume(opts, a) ==
  CASE a.flag = "format" ->
         IF ~a.given THEN Threw
         ELSE IF parseFormatList(a.value) = Threw THEN Threw
         ELSE [opts EXCEPT !.formatOrder = parseFormatList(a.value)]
    [] a.flag = "override" ->
         IF a.key = "" \/ ~a.given THEN Threw
         ELSE IF normalizeFieldKey(a.key) = Null THEN Threw
         ELSE [opts EXCEPT !.labelOverrides =
                 (normalizeFieldKey(a.key).body.w[1] :> a.value) @@ @]
    [] a.flag = "minimal" -> [opts EXCEPT !.minimal = TRUE]
    [] a.flag = "watch" -> [opts EXCEPT !.watch = TRUE]
    [] a.flag = "sound" ->
         IF a.value \in {"all", "some", "assistant"}
         THEN [opts EXCEPT !.sound = a.value]
         ELSE Threw
    [] a.flag = "sound-volume" ->
         IF NumberOf(a) # NotInteger
         THEN [opts EXCEPT !.soundVolume = NumberOf(a).n]
         ELSE Threw
    [] a.flag = "sound-reverb" ->
         IF a.given /\ a.raw \in {"none", "subtle", "default", "lush"}
         THEN [opts EXCEPT !.soundReverb = a.raw]
         ELSE Threw
    [] OTHER -> Threw

\* one iteration of the loop of parseArgs: the options, or Threw
parseArg(opts, a) ==
  CASE a.flag = "format" ->
         IF ~a.given THEN Threw
         ELSE IF parseFormatList(a.value) = Threw THEN Threw
         ELSE [opts EXCEPT !.formatOrder = parseFormatList(a.value)]
    [] a.flag = "override" ->
         IF a.key = "" \/ ~a.given THEN Threw
         ELSE IF normalizeFieldKey(a.key) = Null THEN Threw
         ELSE [opts EXCEPT !.labelOverrides =
                 (normalizeFieldKey(a.key).body.w[1] :> a.value) @@ @]
    [] a.flag = "minimal" -> [opts EXCEPT !.minimal = TRUE]
    [] a.flag = "watch" -> [opts EXCEPT !.watch = TRUE]
    [] a.flag = "sound" ->
         IF a.value \in {"all", "some", "assistant"}
         THEN [opts EXCEPT !.sound = a.value]
         ELSE Threw
    [] a.flag = "sound-volume" ->
         IF NumberOf(a) # NotInteger /\ NumberOf(a).n >= 1 /\ NumberOf(a).n <= 100
         THEN [opts EXCEPT !.soundVolume = NumberOf(a).n]
         ELSE Threw
    [] a.flag = "sound-reverb" ->
         IF a.given /\ a.raw \in {"none", "subtle", "default", "lush"}
         THEN [opts EXCEPT !.soundReverb = a.raw]
         ELSE Threw
    [] OTHER -> Threw

\* runWatch: updateSoundOptions, before the first draw
\* mutant: the mute state is not copied into the options
updateSoundOptions_KeepsMuted(opts, muted) ==
  [opts EXCEPT !.showSoundStatus = opts.sound # "off"]

updateSoundOptions(opts, muted) ==
  [opts EXCEPT !.soundMuted = muted, !.showSoundStatus = opts.sound # "off"]

(***************************************************************************)
(* Inputs of the composer                                                  *)
(***************************************************************************)
MaxArgs == 3
MaxFormat == 2

\* the parts of a format list: names as typed, an unknown name, a blank part
Spellings == {"Time", "cwd", " model ", "sound", "approval", "Bogus", " "}
FormatLists ==
  UNION {[1..n -> Spellings] : n \in 0..MaxFormat}
  \cup {<<"approval", "sandbox", "role", "cwd">>, <<"Time", "cwd", "time">>}
Args ==
  {[flag |-> "format", given |-> TRUE, value |-> list] : list \in FormatLists}
  \cup {[flag |-> "format", given |-> FALSE, value |-> <<>>]}
  \cup {[flag |-> "override", key |-> "model", given |-> TRUE, value |-> <<>>],
        [flag |-> "override", key |-> "CWD", given |-> TRUE, value |-> <<"DIR:">>],
        [flag |-> "override", key |-> "constructor", given |-> TRUE, value |-> <<"x">>]}
  \cup {[flag |-> "override", key |-> "time", given |-> FALSE, value |-> <<>>],
        [flag |-> "override", key |-> "", given |-> TRUE, value |-> <<"x">>]}
  \cup {[flag |-> "minimal"], [flag |-> "watch"], [flag |-> "colour"]}
  \cup {[flag |-> "sound", value |-> mode] : mode \in {"some", "loud"}}

Session(fields) == [k |-> "obj", log |-> [k |-> "obj", mtime |-> DateOf(DateNow)]] @@ fields
Usage(n) == [k |-> "obj", total_tokens |-> Num(n)]
Window(used, seconds) ==
  [k |-> "obj", used_percent |-> Num(used), resets_in_seconds |-> Num(seconds)]

\* the session of the tests: a log just written, a model and a directory
TestSession ==
  Session([lastContext |-> [k |-> "obj", model |-> S("gpt-test-model"),
                            cwd |-> PathText(FALSE, <<"/", "tmp", "/", "project">>)],
           lastActivity |-> Null])
\* a snapshot whose info has the total but not the recent usage
TotalOnlySession ==
  Session([lastContext |-> [k |-> "obj", model |-> S("o3")],
           lastActivity |-> S("tool"),
           lastTokenCount |->
             [k |-> "obj", info |-> [k |-> "obj", total_token_usage |-> Usage(999)]]])

Details ==
  { TestSession,
    TotalOnlySession,
    \* the session of the tests with policies, an activity and a full token snapshot
    Session([lastContext |->
               [k |-> "obj", model |-> S("gpt-test-model"),
                cwd |-> PathText(FALSE, <<"/", "tmp", "/", "project">>),
                sandbox_policy |-> [k |-> "obj", mode |-> S("workspace-write"),
                                    network_access |-> Bool(FALSE)],
                approval_policy |-> S("on-request")],
             lastActivity |-> S("assistant"),
             lastTokenCount |->
               [k |-> "obj",
                info |-> [k |-> "obj", last_token_usage |-> Usage(1234),
                          total_token_usage |-> Usage(5000)],
                rate_limits |-> [k |-> "obj", primary |-> Window(12, 3600),
                                 secondary |-> Window(40, 90000)]]]),
    \* a snapshot without info
    Session([lastContext |-> [k |-> "obj", sandbox_policy |->
                                [k |-> "obj", mode |-> S("read-only")]],
             lastActivity |-> S("review"),
             lastTokenCount |-> [k |-> "obj", rate_limits |-> [k |-> "obj"]]]),
    \* a recent usage of zero
    Session([lastContext |-> Null,
             lastActivity |-> S("user"),
             lastTokenCount |->
               [k |-> "obj", info |-> [k |-> "obj", last_token_usage |-> Usage(0)]]]),
    \* a log whose read failed, last written three hours ago
    [k |-> "obj", log |-> [k |-> "obj", mtime |-> DateOf(DateNow - 10800000)],
     error |-> S("boom")],
    \* a model that is the vendor prefix alone, the home directory as cwd
    Session([lastContext |-> [k |-> "obj", model |-> S("gpt-"),
                              cwd |-> PathText(TRUE, <<>>)],
             lastActivity |-> S("thinking")]),
    \* a directory under dev in the home directory, an activity of another kind
    Session([lastContext |-> [k |-> "obj", model |-> Words(FALSE, <<>>),
                              cwd |-> PathText(TRUE, <<"/", "dev", "/", "app">>),
                              approval_policy |-> Num(1)],
             lastActivity |-> S("compacting")]),
    \* a cwd that is not a string
    Session([lastContext |-> [k |-> "obj", cwd |-> Num(7)], lastActivity |-> Null]) }

(***************************************************************************)
(* runCli: parseArgs, then one rendering of the newest session             *)
(***************************************************************************)
InitCli ==
  /\ log = <<>>
  /\ status = "scanning"
  /\ lastContext = Null
  /\ lastTokenCount = Null
  /\ lastTimestamp = Null
  /\ lastAssistantMessageTime = Null
  /\ lastActivity = Null
  /\ lastReview = Null
  /\ reviewMode = FALSE
  /\ pendingReview = Null
  /\ text = <<>> /\ columns = 0 /\ i = 0 /\ width = 0 /\ result = <<>>
  /\ pc = "idle"
  /\ calls = 0 /\ given = <<>>
  /\ arg = Null /\ argc = 0
  /\ options = DefaultOptions
  /\ detail = Null /\ composed = Null
  /\ stage = "args"
  /\ NoWatch

\* one iteration of the loop of parseArgs; a throw ends runCli
ParseArg ==
  /\ stage = "args"
  /\ argc < MaxArgs
  /\ \E a \in Args : \E parsed \in {parseArg(options, a)} :
       /\ arg' = a
       /\ argc' = argc + 1
       /\ IF parsed = Threw
          THEN stage' = "rejected" /\ options' = Null
          ELSE stage' = "args" /\ options' = parsed
  /\ UNCHANGED <<detail, composed>>
  /\ UNCHANGED <<reader, trunc, watcher, gatherer>>

\* the loop of parseArgs ends: parseArgs returns the options
EndArgs ==
  /\ stage = "args"
  /\ stage' = "parsed"
  /\ arg' = Null
  /\ UNCHANGED <<argc, options, detail, composed>>
  /\ UNCHANGED <<reader, trunc, watcher, gatherer>>

\* runOnce, or the first draw of runWatch: the line of the newest session
Render ==
  /\ stage = "parsed"
  /\ \E d \in Details :
     \E opts \in {IF options.watch THEN updateSoundOptions(options, FALSE) ELSE options} :
       /\ detail' = d
       /\ options' = opts
       /\ composed' = formatSessionSummary(d, opts)
  /\ stage' = "rendered"
  /\ UNCHANGED <<arg, argc>>
  /\ UNCHANGED <<reader, trunc, watcher, gatherer>>

NextCli == ParseArg \/ EndArgs \/ Render
SpecCli == InitCli /\ [][NextCli]_vars

(***************************************************************************)
(* The composed line, read off the options and the session                 *)
(***************************************************************************)
Rendered == stage = "rendered" /\ composed # Threw
ConfiguredOrder ==
  IF options.formatOrder # Null THEN options.formatOrder.items ELSE DEFAULT_FORMAT_ORDER
LabelOf(key) ==
  IF key \in DOMAIN options.labelOverrides THEN options.labelOverrides[key]
  ELSE DefaultLabel[key]
Derivation(key) == Build(key, fieldContext(detail, options))
\* label and value of the fields of order whose derivation is not empty,
\* joined by single spaces
LineOf(order) ==
  LET shown == SelectSeq(order, LAMBDA key : ~IsBlank(Derivation(key)))
  IN IF shown = <<>> THEN NoStatus
     ELSE JoinWith([n \in 1..Len(shown) |->
                      LabelOf(shown[n]) \o Chars(Derivation(shown[n]))], <<" ">>)
NoDuplicates(seq) == \A a, b \in 1..Len(seq) : seq[a] = seq[b] => a = b
\* the line holds the piece
HasPiece(piece) ==
  \E n \in 1..Len(composed.c) :
    n + Len(piece) - 1 <= Len(composed.c)
    /\ SubSeq(composed.c, n, n + Len(piece) - 1) = piece

(***************************************************************************)
(* C14: the composed line is the single-space join, in the configured      *)
(* order and with each field at most once, of label and value of exactly   *)
(* the fields whose derivation is not empty; the label is the override     *)
(* when one is given (an empty override leaves the bare value), else the   *)
(* default label; with no such field the line is the placeholder.          *)
(***************************************************************************)
C14_LineComposition ==
  Rendered => /\ NoDuplicates(ConfiguredOrder)
              /\ composed.c = LineOf(ConfiguredOrder)

\* directory with its default label, then the model with an empty override
C14_Witness ==
  /\ Rendered
  /\ detail = TestSession
  /\ options.formatOrder = Arr(<<"directory", "model">>)
  /\ "model" \in DOMAIN options.labelOverrides
  /\ options.labelOverrides["model"] = <<>>
  /\ composed.c = <<"(folder)", "tmp", "/", "project", " ", "test-model">>

(***************************************************************************)
(* C15: with no order configured the fields come in the order sound, time, *)
(* activity, daily, weekly, recent, total, error, model, approval,         *)
(* sandbox, directory; the session of the tests (log just written, no      *)
(* token snapshot, no activity, model gpt-test-model, cwd /tmp/project)    *)
(* renders as time now, recent n/a, model test-model, directory            *)
(* tmp/project.                                                            *)
(***************************************************************************)
C15_DefaultOrder ==
  (Rendered /\ options.formatOrder = Null) =>
    /\ composed.c = LineOf(<<"sound", "time", "activity", "daily", "weekly", "recent",
                            "total", "error", "model", "approval", "sandbox",
                            "directory">>)
    /\ (detail = TestSession /\ ~options.minimal /\ options.sound = "off"
        /\ DOMAIN options.labelOverrides = {}) =>
         composed.c = <<"(clock)", "now", " ", "(arrows)", "n/a", " ",
                        "(robot)", "test-model", " ",
                        "(folder)", "tmp", "/", "project">>

C15_Witness ==
  /\ Rendered
  /\ detail = TestSession
  /\ options = DefaultOptions
  /\ Len(composed.c) = 13

(***************************************************************************)
(* C16: in minimal mode approval, sandbox, activity and directory never    *)
(* appear in the line, whatever the session and the order, also when the   *)
(* configured order names them.                                            *)
(***************************************************************************)
C16_MinimalHidesFields ==
  (Rendered /\ options.minimal) =>
    composed.c = LineOf(SelectSeq(ConfiguredOrder,
                          LAMBDA key : key \notin {"approval", "sandbox", "activity",
                                                   "directory"}))

\* the order names the four fields, the session has all four, and nothing
\* is left to show
C16_Witness ==
  /\ Rendered
  /\ options.minimal
  /\ options.formatOrder = Arr(<<"approval", "sandbox", "activity", "directory">>)
  /\ Get(Get(detail, "lastContext"), "approval_policy") = S("on-request")
  /\ Get(detail, "lastActivity") # Null
  /\ composed.c = NoStatus

(***************************************************************************)
(* C17: in minimal mode the sound indicator never appears in the line,     *)
(* also in watch mode with sound enabled and the sound field in the order. *)
(***************************************************************************)
C17_MinimalHidesSound ==
  (Rendered /\ options.minimal) =>
    \A n \in 1..Len(composed.c) : composed.c[n] \notin {"(speaker)", "(muted)"}

(***************************************************************************)
(* C18: a format list is resolved name by name through the alias table,    *)
(* case-insensitively, into canonical keys in first-occurrence order       *)
(* without duplicates; an unknown name in the format list or as override   *)
(* target rejects the configuration, and nothing is rendered then.         *)
(***************************************************************************)
Known(name) == LowerKey(TrimKey(name)) \in DOMAIN FIELD_ALIASES
CanonicalOf(name) == FIELD_ALIASES[LowerKey(TrimKey(name))]
NamedParts(list) == SelectSeq(list, LAMBDA part : TrimKey(part) # "")
FirstIndex(names, key) ==
  CHOOSE n \in 1..Len(names) :
    /\ CanonicalOf(names[n]) = key
    /\ \A m \in 1..(n - 1) : CanonicalOf(names[m]) # key
Resolves(names, keys) ==
  /\ NoDuplicates(keys)
  /\ {keys[n] : n \in 1..Len(keys)} = {CanonicalOf(names[n]) : n \in 1..Len(names)}
  /\ \A a, b \in 1..Len(keys) :
       a < b => FirstIndex(names, keys[a]) < FirstIndex(names, keys[b])
ParseStepRule ==
  (stage = "args" /\ argc' = argc + 1) =>
    /\ (arg'.flag = "format" /\ arg'.given) =>
         \E names \in {NamedParts(arg'.value)} :
           IF \E n \in 1..Len(names) : ~Known(names[n])
           THEN stage' = "rejected"
           ELSE names # <<>> =>
                  /\ stage' = "args"
                  /\ options'.formatOrder # Null
                  /\ Resolves(names, options'.formatOrder.items)
    /\ (arg'.flag = "override" /\ arg'.key # "" /\ ~Known(arg'.key)) =>
         stage' = "rejected"
C18_FormatResolvedOrRejected ==
  [](stage = "rejected" => composed = Null) /\ [][ParseStepRule]_vars

\* three names, two of them for the same field, resolved to two keys
C18_Witness ==
  /\ stage = "args"
  /\ arg # Null
  /\ arg.flag = "format"
  /\ arg.value = <<"Time", "cwd", "time">>
  /\ options.formatOrder = Arr(<<"time", "directory">>)

(***************************************************************************)
(* C19: when a token snapshot exists but lacks the recent-usage total, the *)
(* recent field renders n/a instead of being left out, and a reported      *)
(* total of zero renders as the number 0.                                  *)
(***************************************************************************)
RecentTotal ==
  Get(Get(Get(Get(detail, "lastTokenCount"), "info"), "last_token_usage"),
      "total_tokens")
C19_RecentNotReported ==
  (Rendered /\ ArrayIncludes(ConfiguredOrder, "recent")
   /\ Truthy(Get(detail, "lastTokenCount"))) =>
    IF RecentTotal.k = "num"
    THEN RecentTotal = Num(0) => HasPiece(LabelOf("recent") \o <<"0">>)
    ELSE HasPiece(LabelOf("recent") \o <<"n/a">>)

(***************************************************************************)
(* runWatch: timer ticks, key presses and the passes of draw               *)
(***************************************************************************)
MaxScans == 3
MaxStamp == 2

\* mutant: only the sound mode silences
isSoundMuted_OffOnly(opts, muted) == opts.sound = "off"

isSoundMuted(opts, muted) == opts.sound = "off" \/ muted

NoSessions == <<"(bolt)", " ", "no", " ", "sessions">>

buildReport(st, opts) ==
  IF Truthy(Get(st, "error")) THEN Text(Chars(Get(st, "error")))
  ELSE IF Get(st, "sessions").items = <<>> THEN Text(NoSessions)
  ELSE formatSessionSummary(Get(st, "sessions").items[1], opts)

\* mutant: the settings in alphabetical order
SOUND_REVERB_SEQUENCE_Alphabetical == <<"default", "lush", "none", "subtle">>

SOUND_REVERB_SEQUENCE == <<"default", "subtle", "lush", "none">>

\* indexOf is -1 for a setting that is not in the sequence
nextReverbSetting(current) ==
  LET hits == {n \in 1..Len(SOUND_REVERB_SEQUENCE) : SOUND_REVERB_SEQUENCE[n] = current}
      idx == IF hits = {} THEN -1 ELSE (CHOOSE n \in hits : TRUE) - 1
      nextIdx == (idx + 1) % Len(SOUND_REVERB_SEQUENCE)
  IN SOUND_REVERB_SEQUENCE[nextIdx + 1]

\* mutant: assistant mode plays for every activity but user
shouldPlay_AssistantLikeAll(opts, currentActivity, counter) ==
  CASE opts.sound \in {"assistant", "all"} ->
         [play |-> currentActivity # S("user"), counter |-> counter]
    [] opts.sound = "some" ->
         IF currentActivity = S("assistant") THEN [play |-> TRUE, counter |-> counter]
         ELSE IF currentActivity # S("user")
         THEN [play |-> (counter + 1) % 2 = 0 \/ (counter + 1) % 3 = 0,
               counter |-> counter + 1]
         ELSE [play |-> FALSE, counter |-> counter]
    [] OTHER -> [play |-> FALSE, counter |-> counter]

\* mutant: some mode plays when the counter is divisible by 2 and by 3
shouldPlay_EverySixth(opts, currentActivity, counter) ==
  CASE opts.sound = "assistant" ->
         [play |-> currentActivity = S("assistant"), counter |-> counter]
    [] opts.sound = "some" ->
         IF currentActivity = S("assistant") THEN [play |-> TRUE, counter |-> counter]
         ELSE IF currentActivity # S("user")
         THEN [play |-> (counter + 1) % 2 = 0 /\ (counter + 1) % 3 = 0,
               counter |-> counter + 1]
         ELSE [play |-> FALSE, counter |-> counter]
    [] opts.sound = "all" -> [play |-> currentActivity # S("user"), counter |-> counter]
    [] OTHER -> [play |-> FALSE, counter |-> counter]

\* mutant: all mode plays for user messages too
shouldPlay_AllPlaysUser(opts, currentActivity, counter) ==
  CASE opts.sound = "assistant" ->
         [play |-> currentActivity = S("assistant"), counter |-> counter]
    [] opts.sound = "some" ->
         IF currentActivity = S("assistant") THEN [play |-> TRUE, counter |-> counter]
         ELSE IF currentActivity # S("user")
         THEN [play |-> (counter + 1) % 2 = 0 \/ (counter + 1) % 3 = 0,
               counter |-> counter + 1]
         ELSE [play |-> FALSE, counter |-> counter]
    [] opts.sound = "all" -> [play |-> TRUE, counter |-> counter]
    [] OTHER -> [play |-> FALSE, counter |-> counter]

\* the decision of draw for a new activity: shouldPlay and messageCounter
shouldPlay(opts, currentActivity, counter) ==
  CASE opts.sound = "assistant" ->
         [play |-> currentActivity = S("assistant"), counter |-> counter]
    [] opts.sound = "some" ->
         IF currentActivity = S("assistant") THEN [play |-> TRUE, counter |-> counter]
         ELSE IF currentActivity # S("user")
         THEN [play |-> (counter + 1) % 2 = 0 \/ (counter + 1) % 3 = 0,
               counter |-> counter + 1]
         ELSE [play |-> FALSE, counter |-> counter]
    [] opts.sound = "all" -> [play |-> currentActivity # S("user"), counter |-> counter]
    [] OTHER -> [play |-> FALSE, counter |-> counter]

\* mutant: a timestamp equal to the last seen one counts as new
soundCheck_NotStrict(st, opts, muted, seen) ==
  IF isSoundMuted(opts, muted) \/ ~Truthy(Get(st, "sessions"))
     \/ Get(st, "sessions").items = <<>>
  THEN seen
  ELSE LET current == Get(st, "sessions").items[1]
           currentActivity == Get(current, "lastActivity")
           currentTimestamp ==
             IF Truthy(Get(current, "lastTimestamp"))
             THEN Num(Get(current, "lastTimestamp").t) ELSE Null
           lastSeen == IF seen.timestamp = Null THEN 0 ELSE seen.timestamp.n
           decision == shouldPlay(opts, currentActivity, seen.counter)
       IN IF seen.activity = Null /\ seen.timestamp = Null
          THEN [seen EXCEPT !.activity = currentActivity,
                            !.timestamp = currentTimestamp, !.recorded = TRUE]
          ELSE IF Truthy(currentTimestamp) /\ currentTimestamp.n >= lastSeen
          THEN [activity |-> currentActivity, timestamp |-> currentTimestamp,
                counter |-> decision.counter,
                plays |-> IF decision.play
                          THEN <<[activity |-> currentActivity, sound |-> opts.sound,
                                  volume |-> opts.soundVolume,
                                  reverb |-> opts.soundReverb]>>
                          ELSE <<>>,
                recorded |-> TRUE]
          ELSE seen

\* mutant: the first observation is compared like every other
soundCheck_NoFirstRun(st, opts, muted, seen) ==
  IF isSoundMuted(opts, muted) \/ ~Truthy(Get(st, "sessions"))
     \/ Get(st, "sessions").items = <<>>
  THEN seen
  ELSE LET current == Get(st, "sessions").items[1]
           currentActivity == Get(current, "lastActivity")
           currentTimestamp ==
             IF Truthy(Get(current, "lastTimestamp"))
             THEN Num(Get(current, "lastTimestamp").t) ELSE Null
           lastSeen == IF seen.timestamp = Null THEN 0 ELSE seen.timestamp.n
           decision == shouldPlay(opts, currentActivity, seen.counter)
       IN IF Truthy(currentTimestamp) /\ currentTimestamp.n > lastSeen
          THEN [activity |-> currentActivity, timestamp |-> currentTimestamp,
                counter |-> decision.counter,
                plays |-> IF decision.play
                          THEN <<[activity |-> currentActivity, sound |-> opts.sound,
                                  volume |-> opts.soundVolume,
                                  reverb |-> opts.soundReverb]>>
                          ELSE <<>>,
                recorded |-> TRUE]
          ELSE seen

\* mutant: a muted pass records what it saw without playing
soundCheck_RecordsWhileMuted(st, opts, muted, seen) ==
  IF opts.sound = "off" \/ ~Truthy(Get(st, "sessions"))
     \/ Get(st, "sessions").items = <<>>
  THEN seen
  ELSE IF muted
  THEN [seen EXCEPT
          !.activity = Get(Get(st, "sessions").items[1], "lastActivity"),
          !.timestamp =
            IF Truthy(Get(Get(st, "sessions").items[1], "lastTimestamp"))
            THEN Num(Get(Get(st, "sessions").items[1], "lastTimestamp").t)
            ELSE Null]
  ELSE LET current == Get(st, "sessions").items[1]
           currentActivity == Get(current, "lastActivity")
           currentTimestamp ==
             IF Truthy(Get(current, "lastTimestamp"))
             THEN Num(Get(current, "lastTimestamp").t) ELSE Null
           \* currentTimestamp > lastSeenTimestamp reads null as 0
           lastSeen == IF seen.timestamp = Null THEN 0 ELSE seen.timestamp.n
           decision == shouldPlay(opts, currentActivity, seen.counter)
       IN IF seen.activity = Null /\ seen.timestamp = Null
          THEN [seen EXCEPT !.activity = currentActivity,
                            !.timestamp = currentTimestamp, !.recorded = TRUE]
          ELSE IF Truthy(currentTimestamp) /\ currentTimestamp.n > lastSeen
          THEN [activity |-> currentActivity, timestamp |-> currentTimestamp,
                counter |-> decision.counter,
                plays |-> IF decision.play
                          THEN <<[activity |-> currentActivity, sound |-> opts.sound,
                                  volume |-> opts.soundVolume,
                                  reverb |-> opts.soundReverb]>>
                          ELSE <<>>,
                recorded |-> TRUE]
          ELSE seen

\* the check for new activity of a pass that gathered st; seen holds
\* lastSeenActivity, lastSeenTimestamp and messageCounter, the result also
\* the playSound calls made and whether the pass recorded what it saw
soundCheck(st, opts, muted, seen) ==
  IF isSoundMuted(opts, muted) \/ ~Truthy(Get(st, "sessions"))
     \/ Get(st, "sessions").items = <<>>
  THEN seen
  ELSE LET current == Get(st, "sessions").items[1]
           currentActivity == Get(current, "lastActivity")
           currentTimestamp ==
             IF Truthy(Get(current, "lastTimestamp"))
             THEN Num(Get(current, "lastTimestamp").t) ELSE Null
           \* currentTimestamp > lastSeenTimestamp reads null as 0
           lastSeen == IF seen.timestamp = Null THEN 0 ELSE seen.timestamp.n
           decision == shouldPlay(opts, currentActivity, seen.counter)
       IN IF seen.activity = Null /\ seen.timestamp = Null
          THEN [seen EXCEPT !.activity = currentActivity,
                            !.timestamp = currentTimestamp, !.recorded = TRUE]
          ELSE IF Truthy(currentTimestamp) /\ currentTimestamp.n > lastSeen
          THEN [activity |-> currentActivity, timestamp |-> currentTimestamp,
                counter |-> decision.counter,
                plays |-> IF decision.play
                          THEN <<[activity |-> currentActivity, sound |-> opts.sound,
                                  volume |-> opts.soundVolume,
                                  reverb |-> opts.soundReverb]>>
                          ELSE <<>>,
                recorded |-> TRUE]
          ELSE seen

\* draw from updateSoundOptions() to the end of the try block, with the
\* options as the handler left them
Pass(st, gathered, given_opts) ==
  \E opts \in {updateSoundOptions(given_opts, soundMuted')} :
  \E seen \in {IF gathered
               THEN soundCheck(st, opts, soundMuted',
                               [activity |-> lastSeenActivity,
                                timestamp |-> lastSeenTimestamp,
                                counter |-> messageCounter, plays |-> <<>>,
                                recorded |-> FALSE])
               ELSE [activity |-> lastSeenActivity, timestamp |-> lastSeenTimestamp,
                     counter |-> messageCounter, plays |-> <<>>,
                     recorded |-> FALSE]} :
    /\ options' = opts
    /\ composed' = buildReport(st, opts)
    /\ wrote' = TRUE
    /\ lastSeenActivity' = seen.activity
    /\ lastSeenTimestamp' = seen.timestamp
    /\ messageCounter' = seen.counter
    /\ played' = played \o seen.plays
    /\ observed' = IF /\ seen.recorded
                      /\ ~(seen.activity = Null /\ seen.timestamp = Null)
                      /\ observed < 2
                   THEN observed + 1 ELSE observed

(***************************************************************************)
(* Inputs of the watch run                                                 *)
(***************************************************************************)
SoundModes == {"off", "all", "some", "assistant"}
Activities == {Null, S("assistant"), S("user"), S("tool")}
Stamps == {Null} \cup {DateOf(n) : n \in 1..MaxStamp}
WatchSession(activity, stamp) ==
  Session([lastContext |-> [k |-> "obj", model |-> S("o3")],
           lastActivity |-> activity, lastTimestamp |-> stamp])
Statuses ==
  {[k |-> "obj", error |-> S("none")]}
    \cup {[k |-> "obj", sessions |-> Arr(<<WatchSession(a, t)>>)] :
            a \in Activities, t \in Stamps}

InitWatch ==
  /\ log = <<>>
  /\ status = "idle"
  /\ lastContext = Null
  /\ lastTokenCount = Null
  /\ lastTimestamp = Null
  /\ lastAssistantMessageTime = Null
  /\ lastActivity = Null
  /\ lastReview = Null
  /\ reviewMode = FALSE
  /\ pendingReview = Null
  /\ text = <<>> /\ columns = 0 /\ i = 0 /\ width = 0 /\ result = <<>>
  /\ pc = "idle"
  /\ calls = 0 /\ given = <<>>
  /\ arg = Null /\ argc = 0
  /\ \E mode \in SoundModes :
       options = updateSoundOptions([DefaultOptions EXCEPT !.watch = TRUE,
                                                           !.sound = mode], FALSE)
  /\ detail = Null /\ composed = Null
  /\ stage = "watch"
  /\ NoWatch

\* await draw() of runWatch, up to await gather(...); the timer is set and
\* stage is "timer" once this first pass has ended
Start ==
  /\ stage = "watch"
  /\ stage' = "first"
  /\ running' = TRUE
  /\ pending' = pending + 1
  /\ scans' = scans + 1
  /\ event' = "start"
  /\ wrote' = FALSE
  /\ UNCHANGED <<lastSeenActivity, lastSeenTimestamp, lastStatus, soundMuted,
                 messageCounter, played, observed>>
  /\ UNCHANGED <<arg, argc, options, detail, composed>>
  /\ UNCHANGED <<reader, trunc, gatherer>>

\* mutant: draw without the running guard
Tick_NoGuard ==
  /\ stage = "timer"
  /\ scans < MaxScans
  /\ event' = "tick"
  /\ wrote' = FALSE
  /\ running' = TRUE
  /\ pending' = pending + 1
  /\ scans' = scans + 1
  /\ UNCHANGED <<lastSeenActivity, lastSeenTimestamp, lastStatus, soundMuted,
                 messageCounter, played, observed>>
  /\ UNCHANGED <<reader, trunc, composer, gatherer>>

\* draw() of the timer, up to await gather(...)
Tick ==
  /\ stage = "timer"
  /\ running \/ scans < MaxScans
  /\ event' = "tick"
  /\ wrote' = FALSE
  /\ IF running THEN UNCHANGED <<running, pending, scans>>
     ELSE /\ running' = TRUE
          /\ pending' = pending + 1
          /\ scans' = scans + 1
  /\ UNCHANGED <<lastSeenActivity, lastSeenTimestamp, lastStatus, soundMuted,
                 messageCounter, played, observed>>
  /\ UNCHANGED <<reader, trunc, composer, gatherer>>

\* gather resolves and draw runs to its end
GatherResolves ==
  /\ stage \in {"first", "timer"}
  /\ pending > 0
  /\ \E st \in Statuses :
       /\ lastStatus' = st
       /\ soundMuted' = soundMuted
       /\ Pass(st, TRUE, options)
  /\ running' = FALSE
  /\ pending' = pending - 1
  /\ event' = "resolved"
  /\ stage' = "timer"
  /\ UNCHANGED <<arg, argc, detail, scans>>
  /\ UNCHANGED <<reader, trunc, gatherer>>

\* mutant: a rejected gather leaves the guard set
GatherRejects_KeepsGuard ==
  /\ stage \in {"first", "timer"}
  /\ pending > 0
  /\ running' = running
  /\ pending' = pending - 1
  /\ event' = "rejected"
  /\ wrote' = FALSE
  /\ stage' = IF stage = "first" THEN "failed" ELSE stage
  /\ UNCHANGED <<lastSeenActivity, lastSeenTimestamp, lastStatus, soundMuted,
                 messageCounter, played, scans, observed>>
  /\ UNCHANGED <<arg, argc, options, detail, composed>>
  /\ UNCHANGED <<reader, trunc, gatherer>>

\* gather rejects: finally releases the guard; when the first pass fails
\* runWatch rejects, runCli returns 1 and the process exits
GatherRejects ==
  /\ stage \in {"first", "timer"}
  /\ pending > 0
  /\ running' = FALSE
  /\ pending' = pending - 1
  /\ event' = "rejected"
  /\ wrote' = FALSE
  /\ stage' = IF stage = "first" THEN "failed" ELSE stage
  /\ UNCHANGED <<lastSeenActivity, lastSeenTimestamp, lastStatus, soundMuted,
                 messageCounter, played, scans, observed>>
  /\ UNCHANGED <<arg, argc, options, detail, composed>>
  /\ UNCHANGED <<reader, trunc, gatherer>>

\* draw({ reuseLastStatus: true }) of a key handler that left the options opts
Redraw(opts) ==
  IF running
  THEN /\ options' = opts
       /\ wrote' = FALSE
       /\ UNCHANGED <<composed, running, pending, lastSeenActivity, lastSeenTimestamp,
                      lastStatus, messageCounter, played, scans, observed>>
  ELSE IF lastStatus # Null
  THEN /\ Pass(lastStatus, FALSE, opts)
       /\ UNCHANGED <<running, pending, lastStatus, scans>>
  ELSE /\ options' = opts
       /\ wrote' = FALSE
       /\ running' = TRUE
       /\ pending' = pending + 1
       /\ scans' = scans + 1
       /\ UNCHANGED <<composed, lastSeenActivity, lastSeenTimestamp, lastStatus,
                      messageCounter, played, observed>>

\* the m key: toggle, updateSoundOptions and draw({ reuseLastStatus: true })
KeyM ==
  /\ stage \in {"first", "timer"}
  /\ running \/ lastStatus # Null \/ scans < MaxScans
  /\ event' = "m"
  /\ soundMuted' = ~soundMuted
  /\ Redraw(updateSoundOptions(options, soundMuted'))
  /\ UNCHANGED <<arg, argc, detail, stage>>
  /\ UNCHANGED <<reader, trunc, gatherer>>

\* the r key: nothing with sound off, else the next reverb setting,
\* updateSoundOptions and draw({ reuseLastStatus: true })
KeyR ==
  /\ stage \in {"first", "timer"}
  /\ running \/ lastStatus # Null \/ scans < MaxScans
  /\ event' = "r"
  /\ soundMuted' = soundMuted
  /\ IF options.sound = "off"
     THEN /\ wrote' = FALSE
          /\ UNCHANGED <<options, composed, running, pending, lastSeenActivity,
                         lastSeenTimestamp, lastStatus, messageCounter, played, scans,
                         observed>>
     ELSE Redraw(updateSoundOptions(
                   [options EXCEPT !.soundReverb = nextReverbSetting(options.soundReverb)],
                   soundMuted))
  /\ UNCHANGED <<arg, argc, detail, stage>>
  /\ UNCHANGED <<reader, trunc, gatherer>>

NextWatch == Start \/ Tick \/ GatherResolves \/ GatherRejects \/ KeyM
SpecWatch == InitWatch /\ [][NextWatch]_vars

\* the watch run in sound mode some on a log that has a new record, of any
\* activity, at every refresh
MaxCount == 7

InitCount ==
  /\ InitWatch
  /\ options.sound = "some"

\* draw() of the timer, up to await gather(...)
Poll ==
  /\ stage = "timer"
  /\ running \/ scans < MaxCount
  /\ event' = "tick"
  /\ wrote' = FALSE
  /\ IF running THEN UNCHANGED <<running, pending, scans>>
     ELSE /\ running' = TRUE
          /\ pending' = pending + 1
          /\ scans' = scans + 1
  /\ UNCHANGED <<lastSeenActivity, lastSeenTimestamp, lastStatus, soundMuted,
                 messageCounter, played, observed>>
  /\ UNCHANGED <<reader, trunc, composer, gatherer>>

\* gather resolves with the session as the scan found it, and draw runs to
\* its end
GatherAppended ==
  /\ stage \in {"first", "timer"}
  /\ pending > 0
  /\ \E a \in {S("assistant"), S("user"), S("tool")} :
     \E st \in {[k |-> "obj", sessions |-> Arr(<<WatchSession(a, DateOf(scans))>>)]} :
       /\ lastStatus' = st
       /\ soundMuted' = soundMuted
       /\ Pass(st, TRUE, options)
  /\ running' = FALSE
  /\ pending' = pending - 1
  /\ event' = "resolved"
  /\ stage' = "timer"
  /\ UNCHANGED <<arg, argc, detail, scans>>
  /\ UNCHANGED <<reader, trunc, gatherer>>

NextCount == Start \/ Poll \/ GatherAppended
SpecCount == InitCount /\ [][NextCount]_vars

\* the watch run with the r key as the only key pressed
NextReverb == Start \/ Tick \/ GatherResolves \/ KeyR
SpecReverb == InitWatch /\ [][NextReverb]_vars

(***************************************************************************)
(* C20: the first observation of a watch run only records the activity and *)
(* the timestamp it sees and requests no sound, whatever the sound mode    *)
(* and the activity; so a sound is requested only after an earlier pass    *)
(* recorded an observation.                                                *)
(***************************************************************************)
FirstObservationRule ==
  (observed = 0 /\ observed' = 1) =>
    \E current \in {Get(lastStatus', "sessions").items[1]} :
      /\ played' = played
      /\ messageCounter' = messageCounter
      /\ lastSeenActivity' = Get(current, "lastActivity")
      /\ lastSeenTimestamp' =
           (IF Get(current, "lastTimestamp") = Null THEN Null
            ELSE Num(Get(current, "lastTimestamp").t))
C20_FirstObservationSilent ==
  [](played # <<>> => observed = 2) /\ [][FirstObservationRule]_vars

\* an assistant message observed first, in a mode that sounds on assistant
\* messages
C20_Witness ==
  /\ observed = 1
  /\ options.sound = "all"
  /\ lastSeenActivity = S("assistant")
  /\ lastSeenTimestamp = Num(MaxStamp)
  /\ played = <<>>

(***************************************************************************)
(* What a refresh saw, read off the status it gathered                     *)
(***************************************************************************)
HasSession(st) ==
  st # Null /\ Get(st, "sessions") # Null /\ Get(st, "sessions").items # <<>>
CurrentSession(st) == Get(st, "sessions").items[1]
CurrentActivity(st) == Get(CurrentSession(st), "lastActivity")
\* the timestamp of the session in milliseconds, 0 when it is missing
CurrentStamp(st) ==
  IF HasSession(st) /\ Get(CurrentSession(st), "lastTimestamp") # Null
  THEN Get(CurrentSession(st), "lastTimestamp").t ELSE 0
LastSeenStamp == IF lastSeenTimestamp = Null THEN 0 ELSE lastSeenTimestamp.n
\* a refresh ends in this step
Refreshes == event' = "resolved"
Sounds == Len(played') = Len(played) + 1 /\ SubSeq(played', 1, Len(played)) = played
\* the step is a refresh that sees, after the first observation and with
\* sound neither off nor muted, a session with a newer timestamp
Detects ==
  /\ Refreshes
  /\ ~(lastSeenActivity = Null /\ lastSeenTimestamp = Null)
  /\ options.sound # "off" /\ ~soundMuted
  /\ HasSession(lastStatus')
  /\ CurrentStamp(lastStatus') > LastSeenStamp

(***************************************************************************)
(* C21: after the first observation a refresh requests a sound only if the *)
(* timestamp it saw is strictly greater than the last-seen one, and then   *)
(* one sound at most; a refresh whose timestamp is equal, older or missing *)
(* requests no sound and leaves last-seen activity, last-seen timestamp    *)
(* and the counter unchanged.                                              *)
(***************************************************************************)
RefreshRule ==
  (Refreshes /\ observed >= 1) =>
    /\ played' # played => (Sounds /\ CurrentStamp(lastStatus') > LastSeenStamp)
    /\ CurrentStamp(lastStatus') <= LastSeenStamp =>
         /\ played' = played
         /\ lastSeenActivity' = lastSeenActivity
         /\ lastSeenTimestamp' = lastSeenTimestamp
         /\ messageCounter' = messageCounter
C21_SoundOnlyOnNewerTimestamp ==
  [](observed >= 1 <=> ~(lastSeenActivity = Null /\ lastSeenTimestamp = Null))
    /\ [][RefreshRule]_vars

\* a sound was requested for timestamp 1 and the next refresh saw the same
\* timestamp with another activity
C21_Witness ==
  /\ event = "resolved"
  /\ scans = 3
  /\ Len(played) = 1
  /\ lastSeenTimestamp = Num(1)
  /\ CurrentStamp(lastStatus) = 1
  /\ CurrentActivity(lastStatus) # lastSeenActivity

(***************************************************************************)
(* C22: on a detected activity transition, assistant mode requests a sound *)
(* iff the activity is assistant, and all mode requests a sound iff the    *)
(* activity is not user.                                                   *)
(***************************************************************************)
ModeRule ==
  Detects =>
    /\ played' # played => Sounds
    /\ options.sound = "assistant" =>
         (Sounds <=> CurrentActivity(lastStatus') = S("assistant"))
    /\ options.sound = "all" =>
         (Sounds <=> CurrentActivity(lastStatus') # S("user"))
C22_AssistantAndAllModes == [][ModeRule]_vars

\* assistant mode: a sound for the assistant message, none for the tool
\* call after it
C22_Witness ==
  /\ event = "resolved"
  /\ options.sound = "assistant"
  /\ Len(played) = 1
  /\ played[1].activity = S("assistant")
  /\ lastSeenActivity = S("tool")
  /\ lastSeenTimestamp = Num(2)

(***************************************************************************)
(* C23: in some mode, on each detected transition, an assistant activity   *)
(* requests a sound and leaves the counter unchanged, a user activity      *)
(* requests none and leaves the counter unchanged, and any other activity  *)
(* increments the counter and requests a sound iff the new counter is      *)
(* divisible by 2 or by 3: of the counted transitions 1..6 the 2nd, 3rd,   *)
(* 4th and 6th sound.                                                      *)
(***************************************************************************)
SomeRule ==
  (Detects /\ options.sound = "some") =>
    /\ played' # played => Sounds
    /\ CASE CurrentActivity(lastStatus') = S("assistant") ->
              Sounds /\ messageCounter' = messageCounter
         [] CurrentActivity(lastStatus') = S("user") ->
              played' = played /\ messageCounter' = messageCounter
         [] OTHER ->
              /\ messageCounter' = messageCounter + 1
              /\ Sounds <=> (messageCounter' % 2 = 0 \/ messageCounter' % 3 = 0)
CountedSounds == SelectSeq(played, LAMBDA request : request.activity # S("assistant"))
C23_SomeModeCounter ==
  [](options.sound = "some" =>
       Len(CountedSounds)
         = Cardinality({n \in 1..messageCounter : n \in {2, 3, 4, 6, 8, 9, 10}}))
    /\ [][SomeRule]_vars

\* six counted transitions and nothing else: four sounds
C23_Witness ==
  /\ options.sound = "some"
  /\ messageCounter = 6
  /\ Len(played) = 4
  /\ Len(CountedSounds) = 4

(***************************************************************************)
(* C24: in every sound mode, and after any refreshes and key presses, a    *)
(* transition whose activity is user requests no sound.                    *)
(***************************************************************************)
UserRule ==
  (Detects /\ CurrentActivity(lastStatus') = S("user")) => played' = played
C24_UserNeverSounds ==
  [](\A n \in 1..Len(played) : played[n].activity # S("user")) /\ [][UserRule]_vars

\* all mode: a sound for the assistant message, then a user message seen
\* as a transition
C24_Witness ==
  /\ event = "resolved"
  /\ options.sound = "all"
  /\ Len(played) = 1
  /\ lastSeenActivity = S("user")
  /\ lastSeenTimestamp = Num(2)
  /\ CurrentActivity(lastStatus) = S("user")

(***************************************************************************)
(* C25: at most one pass of draw is in flight at any time; a timer tick or *)
(* a key press that arrives while a pass is in flight starts no pass and   *)
(* writes nothing, and a line is written only by a pass that then ends.    *)
(***************************************************************************)
InFlightRule ==
  (running /\ event' \in {"tick", "m", "r"}) =>
    /\ wrote' = FALSE
    /\ composed' = composed
    /\ pending' = pending
    /\ scans' = scans
    /\ played' = played
    /\ lastStatus' = lastStatus
C25_OnePassInFlight ==
  [](pending <= 1 /\ (running <=> pending = 1) /\ (wrote => pending = 0))
    /\ [][InFlightRule]_vars

\* an m press dropped while a timer refresh was in flight
C25_Witness ==
  /\ event = "m"
  /\ running
  /\ stage = "timer"
  /\ soundMuted
  /\ ~wrote

(***************************************************************************)
(* C26: a mute (m) or reverb (r) key press triggers an immediate redraw    *)
(* that reuses the session data the last refresh fetched and starts no     *)
(* log scan, in every state of the watch run, also while a refresh is in   *)
(* flight and before any refresh has succeeded.                            *)
(***************************************************************************)
KeyRedrawRule ==
  (event' \in {"m", "r"} /\ options.sound # "off") =>
    /\ scans' = scans
    /\ pending' = pending
    /\ wrote'
    /\ lastStatus # Null
    /\ composed' = buildReport(lastStatus, options')
C26_KeyPressRedraws == [][KeyRedrawRule]_vars

(***************************************************************************)
(* C27: in a watch run with sound enabled and the sound field in the       *)
(* order, every m press flips the mute state, and a status line written    *)
(* after it shows the muted glyph iff the state is muted and the unmuted   *)
(* glyph otherwise.                                                        *)
(***************************************************************************)
HasGlyph(glyph) == \E n \in 1..Len(composed.c) : composed.c[n] = glyph
MuteRule == event' = "m" => soundMuted' = ~soundMuted
ReverbCycle ==
  ("default" :> "subtle") @@ ("subtle" :> "lush") @@ ("lush" :> "none")
    @@ ("none" :> "default")
ReverbRule ==
  /\ event' = "r" =>
       IF options.sound = "off"
       THEN /\ options' = options
            /\ wrote' = FALSE
            /\ UNCHANGED <<composed, scans, pending, played, soundMuted, lastStatus>>
       ELSE options'.soundReverb = ReverbCycle[options.soundReverb]
  /\ event' # "r" => options'.soundReverb = options.soundReverb
  /\ Sounds => played'[Len(played')].reverb = options'.soundReverb
C28_ReverbCycle ==
  [](nextReverbSetting(nextReverbSetting(nextReverbSetting(
       nextReverbSetting(options.soundReverb)))) = options.soundReverb)
    /\ [][ReverbRule]_vars

\* four presses, and a sound requested after the second
C28_Witness ==
  /\ event = "r"
  /\ options.soundReverb = "default"
  /\ Len(played) = 1
  /\ played[1].reverb = "lush"

(***************************************************************************)
(* runOnce: findSessionLogs, gatherStatuses and the report                 *)
(***************************************************************************)
MaxFiles == 3
MaxMtime == 2
MaxLimit == 2

\* sessions.sort((a, b) => b.mtime - a.mtime): stable, newest first
RECURSIVE sortByMtime(_)
sortByMtime(found) ==
  IF found = <<>> THEN <<>>
  ELSE LET rest == sortByMtime(SubSeq(found, 1, Len(found) - 1))
           last == found[Len(found)]
           ahead == {n \in 1..Len(rest) : rest[n].mtime.t >= last.mtime.t}
           at == IF ahead = {} THEN 0 ELSE CHOOSE n \in ahead : \A m \in ahead : m <= n
       IN SubSeq(rest, 1, at) \o <<last>> \o SubSeq(rest, at + 1, Len(rest))

\* the logs found, without what only reading them tells
findSessionLogs(files, limit) ==
  LET found == [n \in 1..Len(files) |->
                  [k |-> "obj", path |-> files[n].path, mtime |-> files[n].mtime]]
      sorted == sortByMtime(found)
  IN IF limit > 0 THEN SubSeq(sorted, 1, IF limit < Len(sorted) THEN limit ELSE Len(sorted))
     ELSE sorted

\* readLog(entry_log.path): the entry_log state, or Threw
readLogAt(files, path) ==
  LET file == CHOOSE f \in {files[n] : n \in 1..Len(files)} : f.path = path
  IN IF file.readable
     THEN [lastContext |-> [k |-> "obj", model |-> S(path)],
           lastActivity |-> S("assistant")]
     ELSE Threw

\* mutant: a read that fails ends gatherStatuses
ReadOne_AbortsOnError ==
  /\ stage = "reading"
  /\ \E entry_log \in {sessions[Len(details) + 1]} :
     \E info \in {readLogAt(disk, entry_log.path)} :
       IF info = Threw
       THEN stage' = "failed" /\ details' = details
       ELSE /\ details' = Append(details, [k |-> "obj", log |-> entry_log] @@ info)
            /\ stage' = IF Len(details') = Len(sessions) THEN "gathered" ELSE "reading"
  /\ UNCHANGED <<disk, sessions>>
  /\ UNCHANGED <<arg, argc, options, detail, composed>>
  /\ UNCHANGED <<reader, trunc, watcher>>

\* the status gatherStatuses returns
gatherStatuses(found, entries) ==
  IF found = <<>> THEN [k |-> "obj", error |-> S("No-rollout-logs-found")]
  ELSE [k |-> "obj", sessions |-> Arr(entries)]

Paths == <<"a", "b", "c", "d">>
Disks ==
  UNION {[1..n -> [mtime : {DateOf(t) : t \in 1..MaxMtime}, readable : BOOLEAN]] :
           n \in 0..MaxFiles}

InitGather ==
  /\ log = <<>>
  /\ status = "idle"
  /\ lastContext = Null
  /\ lastTokenCount = Null
  /\ lastTimestamp = Null
  /\ lastAssistantMessageTime = Null
  /\ lastActivity = Null
  /\ lastReview = Null
  /\ reviewMode = FALSE
  /\ pendingReview = Null
  /\ text = <<>> /\ columns = 0 /\ i = 0 /\ width = 0 /\ result = <<>>
  /\ pc = "idle"
  /\ calls = 0 /\ given = <<>>
  /\ arg = Null /\ argc = 0
  /\ \E limit \in 1..MaxLimit : options = [DefaultOptions EXCEPT !.limit = limit]
  /\ detail = Null /\ composed = Null
  /\ stage = "find"
  /\ running = FALSE /\ lastSeenActivity = Null /\ lastSeenTimestamp = Null
  /\ lastStatus = Null /\ soundMuted = FALSE /\ messageCounter = 0
  /\ played = <<>> /\ scans = 0 /\ observed = 0
  /\ pending = 0 /\ event = "none" /\ wrote = FALSE
  /\ \E files \in Disks :
       disk = [n \in 1..Len(files) |-> [path |-> Paths[n]] @@ files[n]]
  /\ sessions = <<>> /\ details = <<>>

\* gatherStatuses up to the loop
FindLogs ==
  /\ stage = "find"
  /\ sessions' = findSessionLogs(disk, options.limit)
  /\ stage' = IF sessions' = <<>> THEN "gathered" ELSE "reading"
  /\ UNCHANGED <<disk, details>>
  /\ UNCHANGED <<arg, argc, options, detail, composed>>
  /\ UNCHANGED <<reader, trunc, watcher>>

\* one iteration of the loop of gatherStatuses
ReadOne ==
  /\ stage = "reading"
  /\ \E entry_log \in {sessions[Len(details) + 1]} :
     \E info \in {readLogAt(disk, entry_log.path)} :
       details' =
         Append(details,
                IF info = Threw
                THEN [k |-> "obj", log |-> entry_log, error |-> S("boom")]
                ELSE [k |-> "obj", log |-> entry_log] @@ info)
  /\ stage' = IF Len(details') = Len(sessions) THEN "gathered" ELSE "reading"
  /\ UNCHANGED <<disk, sessions>>
  /\ UNCHANGED <<arg, argc, options, detail, composed>>
  /\ UNCHANGED <<reader, trunc, watcher>>

\* runOnce: the report written to stdout
Report ==
  /\ stage = "gathered"
  /\ composed' = buildReport(gatherStatuses(sessions, details), options)
  /\ stage' = "rendered"
  /\ UNCHANGED <<arg, argc, options, detail>>
  /\ UNCHANGED <<reader, trunc, watcher, gatherer>>

NextGather == FindLogs \/ ReadOne \/ Report
SpecGather == InitGather /\ [][NextGather]_vars

(***************************************************************************)
(* C29: gatherStatuses returns exactly one entry per discovered log, in    *)
(* discovery order; a log whose read fails yields an entry with that log's *)
(* reference and the error, the batch is not aborted, and the entries of   *)
(* the other logs are what they are when no read fails.                    *)
(***************************************************************************)
FileAt(path) == CHOOSE f \in {disk[n] : n \in 1..Len(disk)} : f.path = path
\* the entry of a log, whatever the other logs are
EntryOf(entry_log) ==
  IF FileAt(entry_log.path).readable
  THEN [k |-> "obj", log |-> entry_log, lastActivity |-> S("assistant"),
        lastContext |-> [k |-> "obj", model |-> S(entry_log.path)]]
  ELSE [k |-> "obj", log |-> entry_log, error |-> S("boom")]
C29_OneEntryPerLog ==
  /\ stage # "failed"
  /\ Len(details) <= Len(sessions)
  /\ \A n \in 1..Len(details) : details[n] = EntryOf(sessions[n])
  /\ stage \in {"gathered", "rendered"} => Len(details) = Len(sessions)

\* the first of two reads failed and the second entry is complete
C29_Witness ==
  /\ stage = "gathered"
  /\ Len(details) = 2
  /\ Get(details[1], "error") = S("boom")
  /\ Get(details[2], "error") = Null
  /\ Get(details[2], "lastContext") # Null

(***************************************************************************)
(* C30: with --limit N and at least N rollout logs present, the output     *)
(* displays the N most recent sessions.                                    *)
(***************************************************************************)
\* the output holds the line of the entry
Displays(shown) == HasPiece(formatSessionSummary(shown, options).c)
C30_LimitSessionsDisplayed ==
  (stage = "rendered" /\ Len(disk) >= options.limit) =>
    /\ Len(sessions) = options.limit
    /\ \A n \in 1..options.limit : Displays(details[n])

(***************************************************************************)
(* C31: for a session whose log read failed, the line composed with the    *)
(* default order consists of the time field and the error field only (and  *)
(* the sound indicator of a watch run, which depends on the options alone):*)
(* every field that depends on context or token data renders nothing.      *)
(***************************************************************************)
ReadFailed == Truthy(Get(detail, "error"))
C31_FailedReadLine ==
  (Rendered /\ ReadFailed /\ options.formatOrder = Null) =>
    composed.c = LineOf(<<"sound", "time", "error">>)

(***************************************************************************)
(* C32: for every session state the reader can produce, including context  *)
(* or token data of an unexpected type, no field derivation raises: each   *)
(* returns a display string or no value.                                   *)
(***************************************************************************)
C32_NoDerivationRaises ==
  stage = "rendered" =>
    \A n \in 1..Len(DEFAULT_FORMAT_ORDER) :
      Derivation(DEFAULT_FORMAT_ORDER[n]) # Threw

(***************************************************************************)
(* The time field over the ages of a log                                   *)
(***************************************************************************)
MaxDays == 2

\* ages in milliseconds: days, hours, minutes, seconds and a fraction; a log
\* written 3 seconds ahead of the clock is among them
Ages ==
  {((d * 24 + h) * 60 + mins) * 60000 + secs * 1000 + ms :
     d \in 0..MaxDays, h \in {0, 4, 23}, mins \in {0, 1, 59},
     secs \in {-3, 0, 4, 5, 59}, ms \in {0, 999}}

InitAge ==
  /\ log = <<>>
  /\ status = "scanning"
  /\ lastContext = Null
  /\ lastTokenCount = Null
  /\ lastTimestamp = Null
  /\ lastAssistantMessageTime = Null
  /\ lastActivity = Null
  /\ lastReview = Null
  /\ reviewMode = FALSE
  /\ pendingReview = Null
  /\ text = <<>> /\ columns = 0 /\ i = 0 /\ width = 0 /\ result = <<>>
  /\ pc = "idle"
  /\ calls = 0 /\ given = <<>>
  /\ arg = Null /\ argc = 0
  /\ options = [DefaultOptions EXCEPT !.formatOrder = Arr(<<"time">>)]
  /\ \E age \in Ages :
       detail = [k |-> "obj", log |-> [k |-> "obj", mtime |-> DateOf(DateNow - age)]]
  /\ composed = Null
  /\ stage = "parsed"
  /\ NoWatch

\* runOnce with --format time: the line of the session
RenderAge ==
  /\ stage = "parsed"
  /\ composed' = formatSessionSummary(detail, options)
  /\ stage' = "rendered"
  /\ UNCHANGED <<arg, argc, options, detail>>
  /\ UNCHANGED <<reader, trunc, watcher, gatherer>>

NextAge == RenderAge
SpecAge == InitAge /\ [][NextAge]_vars

(***************************************************************************)
(* C33: the time field renders 'now' when the log's modification time is   *)
(* less than 5 seconds old, and otherwise the largest non-zero unit of the *)
(* age alone, with its whole count and nothing after it (an age of exactly *)
(* 3 hours renders '3h', an age of 2 days 4 hours renders '2d').           *)
(***************************************************************************)
AgeSeconds == (DateNow - detail.log.mtime.t) \div 1000
\* the count of the unit of that many seconds within the next larger unit
CountOf(seconds, within) == (AgeSeconds % within) \div seconds
LargestUnit ==
  IF AgeSeconds >= 86400 THEN <<ToString(AgeSeconds \div 86400), "d">>
  ELSE IF AgeSeconds >= 3600 THEN <<ToString(AgeSeconds \div 3600), "h">>
  ELSE IF AgeSeconds >= 60 THEN <<ToString(AgeSeconds \div 60), "m">>
  ELSE <<ToString(AgeSeconds), "s">>
\* the unit after the largest one, when its count is not zero
SecondUnit ==
  IF AgeSeconds >= 86400
  THEN IF CountOf(3600, 86400) > 0 THEN <<" ", ToString(CountOf(3600, 86400)), "h">> ELSE <<>>
  ELSE IF AgeSeconds >= 3600
  THEN IF CountOf(60, 3600) > 0 THEN <<" ", ToString(CountOf(60, 3600)), "m">> ELSE <<>>
  ELSE IF AgeSeconds >= 60
  THEN IF CountOf(1, 60) > 0 THEN <<" ", ToString(CountOf(1, 60)), "s">> ELSE <<>>
  ELSE <<>>
C33_TimeLargestUnit ==
  stage = "rendered" =>
    composed.c = DefaultLabel["time"]
                   \o (IF AgeSeconds < 5 THEN <<"now">> ELSE LargestUnit)

\* a log written 2 days 4 hours ago
C33_Witness ==
  /\ stage = "rendered"
  /\ AgeSeconds = 187200
  /\ composed.c = DefaultLabel["time"] \o <<"2", "d">>

\* the claim as stated: the largest one or two non-zero units
C33_TimeOneOrTwoUnits ==
  stage = "rendered" =>
    composed.c = DefaultLabel["time"]
                   \o (IF AgeSeconds < 5 THEN <<"now">> ELSE LargestUnit \o SecondUnit)

(***************************************************************************)
(* readLog over review payloads without content                            *)
(***************************************************************************)
MaxHollowLog == 3

\* review cycles whose exit carries an empty object, findings that are all
\* discarded, nothing, or one finding; an assistant message and a free-text
\* agent message around them
HollowLines ==
  { Record(S("turn_context"), IsoDate(1), Context("gpt-5")),
    Event(Null, [k |-> "obj", type |-> S("entered_review_mode")]),
    AgentMessage(Words(TRUE, <<"looks", "fine">>)),
    Item(Null, S("assistant"), S("message"), Null),
    Exited(Null, EmptyObject, Null),
    Exited(IsoDate(4), [k |-> "obj", findings |-> Arr(<<FindingHollow>>)], Null),
    Exited(Null, Null, Null),
    Exited(Null, FindingsOnlyReview, Null) }

NextHollow == ReadLine(HollowLines, MaxHollowLog) \/ EndOfStream
SpecHollow == Init /\ [][NextHollow]_vars

(***************************************************************************)
(* C34: normalizing a review payload that has no usable content (no        *)
(* summary, explanation, correctness, confidence or surviving finding, and *)
(* no fallback text), such as an empty object, yields null; so an          *)
(* exited_review_mode event carrying only such a payload sets neither      *)
(* lastReview nor lastActivity = review.                                   *)
(***************************************************************************)
Hollow(raw) ==
  /\ raw.k = "obj"
  /\ \A f \in {"summary", "overall_explanation", "overallExplanation",
               "overall_correctness", "overallCorrectness",
               "overall_confidence_score", "overall_confidence"} :
       Get(raw, f) = Null
  /\ IsArray(Get(raw, "findings")) =>
       \A n \in 1..Len(Get(raw, "findings").items) :
         normalizeReviewFinding(Get(raw, "findings").items[n]) = Null
IsHollowExit(line) ==
  /\ IsExited(line)
  /\ Hollow(Get(PayloadOf(line), "review_output"))
  /\ ~Truthy(Get(PayloadOf(line), "message"))
C34_HollowPayloadIsNull ==
  [][(Reads(IsHollowExit) /\ pendingReview = Null /\ status' # "failed") =>
       /\ OutputReviewOf(log'[Len(log')]) = Null
       /\ lastReview' = lastReview
       /\ lastActivity' = lastActivity]_vars

(***************************************************************************)
(* parseArgs over the sound arguments                                      *)
(***************************************************************************)
MaxSoundArgs == 3

\* --sound-volume and --sound-reverb with the value inline (after =, always
\* given) or as the next argument (absent at the end of argv), next to a
\* format list, a sound mode and an unknown flag
SoundArgs ==
  {[flag |-> "sound-volume", given |-> TRUE, raw |-> spelling] :
     spelling \in DOMAIN Numerals}
  \cup {[flag |-> "sound-volume", given |-> FALSE, raw |-> ""]}
  \cup {[flag |-> "sound-reverb", given |-> TRUE, raw |-> setting] :
          setting \in {"none", "subtle", "lush", "huge", ""}}
  \cup {[flag |-> "sound-reverb", given |-> FALSE, raw |-> ""]}
  \cup {[flag |-> "sound", value |-> mode] : mode \in {"all", "assistant", "loud"}}
  \cup {[flag |-> "format", given |-> TRUE, value |-> list] :
          list \in {<<"Time", "cwd", "time">>, <<" ">>, <<"Bogus">>}}
  \cup {[flag |-> "colour"]}

\* one iteration of the loop of parseArgs; a throw ends runCli
ParseSoundArg ==
  /\ stage = "args"
  /\ argc < MaxSoundArgs
  /\ \E a \in SoundArgs : \E parsed \in {parseArg(options, a)} :
       /\ arg' = a
       /\ argc' = argc + 1
       /\ IF parsed = Threw
          THEN stage' = "rejected" /\ options' = Null
          ELSE stage' = "args" /\ options' = parsed
  /\ UNCHANGED <<detail, composed>>
  /\ UNCHANGED <<reader, trunc, watcher, gatherer>>

NextArgs == ParseSoundArg \/ EndArgs
SpecArgs == InitCli /\ [][NextArgs]_vars

(***************************************************************************)
(* C35: every argument list that parseArgs accepts yields options inside   *)
(* the configuration domain: sound is one of off, all, some, assistant;    *)
(* soundVolume is an integer from 1 to 100; soundReverb is one of none,    *)
(* subtle, default, lush; formatOrder is unset or a non-empty list of      *)
(* distinct canonical field keys; every other argument list is rejected    *)
(* with an error and yields no options.                                    *)
(***************************************************************************)
InDomain(opts) ==
  /\ opts.sound \in {"off", "all", "some", "assistant"}
  /\ opts.soundVolume \in 1..100
  /\ opts.soundReverb \in {"none", "subtle", "default", "lush"}
  /\ \/ opts.formatOrder = Null
     \/ /\ IsArray(opts.formatOrder)
        /\ opts.formatOrder.items # <<>>
        /\ NoDuplicates(opts.formatOrder.items)
        /\ \A n \in 1..Len(opts.formatOrder.items) :
             ArrayIncludes(CANONICAL_FIELDS, opts.formatOrder.items[n])
C35_OptionsInDomain ==
  /\ stage \in {"args", "parsed"} => InDomain(options)
  /\ stage = "rejected" => options = Null
  /\ stage \in {"args", "parsed", "rejected"}

\* accepted: a volume of 7 written with spaces, the lush reverb, a format list
C35_Witness ==
  /\ stage = "parsed"
  /\ options.soundVolume = 7
  /\ options.soundReverb = "lush"
  /\ options.formatOrder = Arr(<<"time", "directory">>)

(***************************************************************************)
(* readLog over reviews whose correctness text holds no keyword            *)
(***************************************************************************)
MaxVerdictLog == 3

\* a correctness text that matches none of the keywords
OpenReview ==
  [k |-> "obj", summary |-> S("Open"),
   overall_correctness |-> Words(FALSE, <<"needs", "discussion">>)]
VerdictLines ==
  { Event(Null, [k |-> "obj", type |-> S("entered_review_mode")]),
    AgentMessage(JsonText(FALSE, StructuredReview)),
    AgentMessage(JsonText(FALSE, OpenReview)),
    AgentMessage(Words(TRUE, <<"looks", "fine">>)),
    Exited(Null, Null, Null),
    Exited(IsoDate(4), OutputReview, Null),
    Exited(Null, OpenReview, Null),
    Exited(Null, FindingsOnlyReview, Null) }

NextVerdict == ReadLine(VerdictLines, MaxVerdictLog) \/ EndOfStream
SpecVerdict == Init /\ [][NextVerdict]_vars

(***************************************************************************)
(* C36: in every lastReview that readLog returns, verdict equals the       *)
(* verdict obtained by keyword-matching that same record's                 *)
(* overallCorrectness (incorrect/reject/changes gives incorrect, else      *)
(* correct/approve gives correct, else unsure/uncertain/follow-up gives    *)
(* unsure, else null), including records produced by merging review_output *)
(* with pending partial data.                                              *)
(***************************************************************************)
C36_VerdictMatchesCorrectness ==
  (status # "failed" /\ lastReview # Null) =>
    lastReview.verdict = deriveReviewVerdict(lastReview.overallCorrectness)

(***************************************************************************)
(* C37: at every point of a log scan, pending partial review data exists   *)
(* only while the in-review flag is set (between an entered_review_mode    *)
(* event and the next exited_review_mode event); consequently a lastReview *)
(* set by an exit event contains only that event's own data and data from  *)
(* agent messages logged since the most recent entered_review_mode, never  *)
(* data from an earlier cycle or from agent messages outside a cycle.      *)
(***************************************************************************)
InCycle == LastWhere(IsEntered, Len(log)) > LastWhere(IsExited, Len(log))
\* what an exit event read next can draw on: its review_output, then the
\* agent messages of the open cycle
ExitSources(line) ==
  (IF OutputReviewOf(line) # Null THEN <<OutputReviewOf(line)>> ELSE <<>>)
  \o CycleReviews(Len(log) + 1)
ExitRule ==
  (Reads(IsExited) /\ status' # "failed") =>
    \E from \in {ExitSources(log'[Len(log')])} :
    \E fallback \in {FallbackReviewOf(log'[Len(log')])} :
      IF from # <<>>
      THEN /\ \A f \in ScalarFields : lastReview'[f] = FirstOf(from, f)
           /\ lastReview'.findings = AllFindings(from)
      ELSE IF fallback # Null
      THEN /\ \A f \in ScalarFields : lastReview'[f] = fallback[f]
           /\ lastReview'.findings = fallback.findings
      ELSE lastReview' = lastReview
C37_PendingOnlyInCycle ==
  /\ [](status # "failed" =>
          /\ pendingReview # Null => reviewMode
          /\ reviewMode <=> InCycle
          /\ pendingReview = Null <=> CycleReviews(Len(log) + 1) = <<>>)
  /\ [][ExitRule]_vars

\* a cycle that yielded a review from its agent message, then an exit event
\* outside any cycle whose review_output has one finding and nothing else
C37_Witness ==
  /\ Len(log) = 4 /\ status # "failed"
  /\ IsEntered(log[1]) /\ IsAgentMessage(log[2]) /\ MessageReview(log[2]) # Null
  /\ Truthy(MessageReview(log[2]).overallCorrectness)
  /\ IsExited(log[3]) /\ IsExited(log[4])
  /\ OutputReviewOf(log[4]) # Null
  /\ lastReview.overallCorrectness = Null
  /\ lastReview.findings = OutputReviewOf(log[4]).findings
  /\ pendingReview = Null /\ ~reviewMode

(***************************************************************************)
(* C38: under every interleaving of timer refreshes and key presses        *)
(* (including a mute toggle that arrives while a refresh is in flight), no *)
(* sound is requested while sound is muted or the sound mode is off.       *)
(***************************************************************************)
SilenceRule ==
  played' # played =>
    /\ Sounds /\ Refreshes
    /\ ~soundMuted /\ ~soundMuted'
    /\ options'.sound # "off"
    /\ played'[Len(played')].sound = options'.sound
C38_NoSoundWhileMuted ==
  [][SilenceRule]_vars

\* muted after an earlier sound, a refresh has ended that saw a newer
\* assistant record, and no second sound was requested
C38_Witness ==
  /\ event = "resolved"
  /\ soundMuted /\ options.sound = "all"
  /\ Len(played) = 1
  /\ HasSession(lastStatus)
  /\ CurrentActivity(lastStatus) = S("assistant")
  /\ CurrentStamp(lastStatus) > LastSeenStamp

(***************************************************************************)
(* C39: a refresh that fails (its gather step rejects) releases the        *)
(* in-flight guard, so the next timer tick performs a refresh instead of   *)
(* being skipped; one failed or stalled-then-finished refresh never blocks *)
(* all later refreshes.                                                    *)
(***************************************************************************)
RecoveryRule ==
  /\ event' \in {"rejected", "resolved"} => ~running' /\ pending' = 0
  /\ event' = "rejected" =>
       /\ lastStatus' = lastStatus /\ played' = played /\ composed' = composed
       /\ stage' = "failed" <=> stage = "first"
  /\ (event' = "tick" /\ event \in {"rejected", "resolved"}) =>
       running' /\ pending' = 1 /\ scans' = scans + 1
C39_FailedRefreshReleasesGuard ==
  [][RecoveryRule]_vars

\* a timer refresh has failed after an earlier one succeeded; the guard is
\* free and the timer can start the next scan
C39_Witness ==
  /\ event = "rejected"
  /\ stage = "timer"
  /\ ~running /\ pending = 0
  /\ lastStatus # Null
  /\ scans < MaxScans

(***************************************************************************)
(* C40: a refresh performed while sound is muted leaves last-seen          *)
(* activity, last-seen timestamp and the message counter unchanged, so the *)
(* first refresh after unmuting compares the current session against the   *)
(* state recorded before muting.                                           *)
(***************************************************************************)
MutedRule ==
  /\ (Refreshes /\ soundMuted') =>
       /\ lastSeenActivity' = lastSeenActivity
       /\ lastSeenTimestamp' = lastSeenTimestamp
       /\ messageCounter' = messageCounter
       /\ played' = played
  /\ (Refreshes /\ ~soundMuted' /\ options'.sound # "off" /\ HasSession(lastStatus')
      /\ ~(lastSeenActivity = Null /\ lastSeenTimestamp = Null)) =>
       IF CurrentStamp(lastStatus') > LastSeenStamp
       THEN /\ lastSeenTimestamp' = Num(CurrentStamp(lastStatus'))
            /\ lastSeenActivity' = CurrentActivity(lastStatus')
       ELSE /\ lastSeenTimestamp' = lastSeenTimestamp
            /\ lastSeenActivity' = lastSeenActivity
  /\ ~Refreshes =>
       /\ lastSeenActivity' = lastSeenActivity
       /\ lastSeenTimestamp' = lastSeenTimestamp
       /\ messageCounter' = messageCounter
C40_MutedRefreshKeepsState ==
  [][MutedRule]_vars

\* in some mode, muted: a refresh has seen a tool record newer than the one
\* recorded before muting, and the recorded state is as it was
C40_Witness ==
  /\ event = "resolved"
  /\ soundMuted /\ options.sound = "some"
  /\ lastSeenTimestamp = Num(1)
  /\ messageCounter = 0
  /\ HasSession(lastStatus)
  /\ CurrentStamp(lastStatus) = 2
  /\ CurrentActivity(lastStatus) = S("tool")

====
